---- MODULE Spec2Model ----
(***************************************************************************)
(* Retrieval pipeline of project-polaris: ReciprocalRankFusion.fuse,       *)
(* CrossEncoderReranker.rerank and AdvancedRAGRetriever.retrieve with the  *)
(* document store wrapper it searches.                                     *)
(*                                                                         *)
(* Numbers.  Similarity scores and the similarity threshold are held in    *)
(* hundredths (0.9 is 90).  Fused scores are held as exact multiples of    *)
(* 1/RRFDen, RRFDen being the product of the denominators k + rank that    *)
(* can occur, so that weight / (k + rank) is an integer and sums are       *)
(* exact.  Python's floats round; this arithmetic does not, and the floats *)
(* are held beside it where the rounding matters.                          *)
(*                                                                         *)
(* A dictionary key that may be missing is a sequence of length 0 or 1:    *)
(* <<>> is "key absent", <<v>> is "key present with value v".              *)
(***************************************************************************)
EXTENDS Integers, Sequences, FiniteSets, TLC

VARIABLES
    fuse_call,      \* one call of ReciprocalRankFusion.fuse: arguments, position, result
    rerank_call,    \* one call of CrossEncoderReranker.rerank
    settings,       \* config.settings: top_k_retrieval, top_k_final, similarity_threshold
    retriever,      \* the AdvancedRAGRetriever: feature flags, reranker model, store rows
    retrieve_call,  \* one call of AdvancedRAGRetriever.retrieve
    select_call,    \* one call of AdvancedRAGRetriever._select_strategy
    hybrid_call,    \* one call of SupabaseVectorStoreWrapper._combine_results
    hyde_call,      \* one call of HyDERetriever.retrieve
    multi_query_call, \* one call of AdvancedRAGRetriever._multi_query_retrieve
    filter_call,    \* one call of AdvancedRAGRetriever._filter_by_threshold
    other_calls     \* the calls of retrieve that are not running: returned, waiting

vars == <<fuse_call, rerank_call, settings, retriever, retrieve_call,
          select_call, hybrid_call, hyde_call, multi_query_call, filter_call,
          other_calls>>

pipeline == <<settings, retriever, retrieve_call>>

components == <<select_call, hybrid_call, hyde_call, multi_query_call, filter_call,
                other_calls>>

\* A call frame that is not in use in a specification.
Idle == [pc |-> "idle"]

----------------------------------------------------------------------------
(* Bounds *)

\* Most ranked lists handed to one fuse call.
MaxLists == 2

\* Most passages handed to one fuse call, over all its lists.
MaxDocs == 4

\* Largest top_k a caller asks for.
MaxTopK == 2

----------------------------------------------------------------------------
(* Helpers on sequences *)

Min(a, b) == IF a < b THEN a ELSE b

Max(a, b) == IF a > b THEN a ELSE b

\* Python's seq[:n] for n >= 0.
Take(seq, n) == SubSeq(seq, 1, Min(n, Len(seq)))

SeqsUpTo(S, n) == UNION {[1..m -> S] : m \in 0..n}

\* Sequences of at most n distinct members of S.
DistinctSeqsUpTo(S, n) ==
    {s \in SeqsUpTo(S, n) : \A i, j \in 1..Len(s) : i # j => s[i] # s[j]}

RECURSIVE SumSeq(_)
SumSeq(s) == IF s = <<>> THEN 0 ELSE Head(s) + SumSeq(Tail(s))

RECURSIVE Concat(_)
Concat(ss) == IF ss = <<>> THEN <<>> ELSE Head(ss) \o Concat(Tail(ss))

RECURSIVE Product(_, _)
Product(lo, hi) == IF lo > hi THEN 1 ELSE lo * Product(lo + 1, hi)

----------------------------------------------------------------------------
(* Documents: langchain Document(page_content, metadata) *)

None == <<>>

Some(v) == <<v>>

\* A stored metadata value of key 'score': a number (hundredths) or a string.
Float(v) == [type |-> "float", value |-> v]

Str(v) == [type |-> "str", value |-> v]

Metadata(id, filename, score) ==
    [id |-> id, filename |-> filename, score |-> score,
     rrf_score |-> None, rerank_score |-> None]

Document(page_content, metadata) ==
    [page_content |-> page_content, metadata |-> metadata]

\* The documents the fused lists are drawn from: two documents without an id
\* (identity by content hash), and two documents that carry the same id with
\* different contents and metadata, one of them with the content of DocA.
DocA == Document(1, Metadata(None, 1, Some(Float(90))))

DocB == Document(2, Metadata(None, 1, Some(Float(40))))

DocD == Document(1, Metadata(Some(7), 1, Some(Float(90))))

DocE == Document(2, Metadata(Some(7), 2, None))

FuseDocs == {DocA, DocB, DocD, DocE}

\* A document whose stored metadata has no 'score' key, and one whose 'score'
\* is a string.
DocC == Document(3, Metadata(None, 2, None))

DocX == Document(3, Metadata(None, 1, Some(Str(1))))

----------------------------------------------------------------------------
(* ReciprocalRankFusion *)

\* self.k of ReciprocalRankFusion.__init__ (k: int = 60).
RRF_K == 60

\* hash(doc.page_content) as a decimal string: contents are the numbers 1, 2, 3 and
\* ids are small numbers, so the two kinds of identifier are told apart by HashBase.
HashBase == 1000

Hash(page_content) == HashBase + page_content

\* _get_doc_id: the metadata id when the key is present, else the content hash.
GetDocId(doc) ==
    IF doc.metadata.id # None THEN doc.metadata.id[1] ELSE Hash(doc.page_content)

\* The longest list of distinct documents, hence the last rank that occurs.
MaxRank == Cardinality(FuseDocs)

\* Common denominator of every weight / (k + rank) with rank in 1..MaxRank.
RRFDen == Product(RRF_K + 1, RRF_K + MaxRank)

\* weight / (self.k + rank), in units of 1/RRFDen.
RRFScoreRankFromZero(weight, rank) == (weight * RRFDen) \div (RRF_K + rank - 1)

RRFScore(weight, rank) == (weight * RRFDen) \div (RRF_K + rank)

\* weights = [1.0] * len(ranked_lists) when weights is None.
DefaultWeights(ranked_lists, weights) ==
    IF weights = None THEN [i \in 1..Len(ranked_lists) |-> 1] ELSE weights[1]

\* zip(weights, ranked_lists) with enumerate(ranked_list, start=1), flattened in
\* iteration order: one entry per (weight, rank, doc) the two loops visit.  zip
\* stops at the shorter of its two arguments.
RECURSIVE ListEntries(_, _, _)
ListEntries(weight, ranked_list, rank) ==
    IF rank > Len(ranked_list) THEN <<>>
    ELSE <<[weight |-> weight, rank |-> rank, doc |-> ranked_list[rank]]>>
         \o ListEntries(weight, ranked_list, rank + 1)

RECURSIVE ZipEntries(_, _, _)
ZipEntries(weights, ranked_lists, i) ==
    IF i > Min(Len(weights), Len(ranked_lists)) THEN <<>>
    ELSE ListEntries(weights[i], ranked_lists[i], 1)
         \o ZipEntries(weights, ranked_lists, i + 1)

\* doc_scores and doc_objects after one loop iteration.  The two dictionaries get
\* their keys at the same moment, so they are one sequence of
\* [doc_id, score, doc] in key insertion order.
IndexOfId(acc, doc_id) ==
    IF \E j \in 1..Len(acc) : acc[j].doc_id = doc_id
    THEN CHOOSE j \in 1..Len(acc) : acc[j].doc_id = doc_id
    ELSE 0

AccumulateKeepLast(acc, e) ==
    LET doc_id == GetDocId(e.doc)
        j == IndexOfId(acc, doc_id)
    IN  IF j = 0
        THEN Append(acc, [doc_id |-> doc_id,
                          score |-> RRFScore(e.weight, e.rank),
                          doc |-> e.doc])
        ELSE [acc EXCEPT ![j].score = @ + RRFScore(e.weight, e.rank),
                         ![j].doc = e.doc]

Accumulate(acc, e) ==
    LET doc_id == GetDocId(e.doc)
        j == IndexOfId(acc, doc_id)
    IN  IF j = 0
        THEN Append(acc, [doc_id |-> doc_id,
                          score |-> RRFScore(e.weight, e.rank),
                          doc |-> e.doc])
        ELSE [acc EXCEPT ![j].score = @ + RRFScore(e.weight, e.rank)]

RECURSIVE FoldEntries(_, _)
FoldEntries(acc, entries) ==
    IF entries = <<>> THEN acc
    ELSE FoldEntries(Accumulate(acc, Head(entries)), Tail(entries))

\* sorted(items, key=score, reverse=True): Python's sort is stable, and with
\* reverse=True items of equal key keep their original order.  Insertion of x
\* after every item whose score is >= x's.
RECURSIVE InsertDesc(_, _)
InsertDesc(sorted, x) ==
    IF sorted = <<>> THEN <<x>>
    ELSE IF Head(sorted).score >= x.score
         THEN <<Head(sorted)>> \o InsertDesc(Tail(sorted), x)
         ELSE <<x>> \o sorted

RECURSIVE InsertDescTiesFirst(_, _)
InsertDescTiesFirst(sorted, x) ==
    IF sorted = <<>> THEN <<x>>
    ELSE IF Head(sorted).score > x.score
         THEN <<Head(sorted)>> \o InsertDescTiesFirst(Tail(sorted), x)
         ELSE <<x>> \o sorted

RECURSIVE SortedByScoreFrom(_, _, _)
SortedByScoreFrom(sorted, items, reverse_ties) ==
    IF items = <<>> THEN sorted
    ELSE SortedByScoreFrom(
             IF reverse_ties THEN InsertDescTiesFirst(sorted, Head(items))
                             ELSE InsertDesc(sorted, Head(items)),
             Tail(items), reverse_ties)

SortedByScoreUnstable(items) == SortedByScoreFrom(<<>>, items, TRUE)

SortedByScoreUnsorted(items) == items

SortedByScore(items) == SortedByScoreFrom(<<>>, items, FALSE)

\* Document(page_content=doc.page_content,
\*          metadata={**doc.metadata, "rrf_score": score})
WithRRFScore(item) ==
    Document(item.doc.page_content,
             [item.doc.metadata EXCEPT !.rrf_score = Some(item.score)])

\* fuse with doc_scores and doc_objects kept on the object: the lists another
\* call has collected are scored with this call's.
FuseOntoSharedScores(ranked_lists, weights) ==
    LET lists == other_calls.waiting.all_results \o ranked_lists
    IN  IF lists = <<>> THEN <<>>
        ELSE LET entries == ZipEntries(DefaultWeights(lists, weights), lists, 1)
                 sorted_docs == SortedByScore(FoldEntries(<<>>, entries))
             IN  [i \in 1..Len(sorted_docs) |-> WithRRFScore(sorted_docs[i])]

\* fuse(ranked_lists, weights): weights is None or Some(list of weights).
Fuse(ranked_lists, weights) ==
    IF ranked_lists = <<>> THEN <<>>
    ELSE LET entries == ZipEntries(DefaultWeights(ranked_lists, weights),
                                   ranked_lists, 1)
             sorted_docs == SortedByScore(FoldEntries(<<>>, entries))
         IN  [i \in 1..Len(sorted_docs) |-> WithRRFScore(sorted_docs[i])]

----------------------------------------------------------------------------
(* The scores as Python computes them: "weight / (self.k + rank)" and "+=" on
   floats are IEEE-754 double operations, each rounded to 53 significant bits,
   ties to even.  A double of this section is a multiple of 2^-58 below 2^-2,
   written as three limbs <<a, b, c>> for (a * Limb + b) * Limb + c in units of
   2^-58.  The quotients 1/61 .. 1/64 lie in [2^-6, 2^-5), where the doubles
   are the multiples of one unit; a sum in [2^-5, 2^-4) is rounded to a
   multiple of 2 units, in [2^-4, 2^-3) of 4, in [2^-3, 2^-2) of 8. *)

Limb == 2^20

\* 2^18: one, in units of 2^-58, is TopLimbOfOne * Limb * Limb.
TopLimbOfOne == 2^18

\* The limbs after the carries.
Carried(a, b, c) ==
    LET b2 == b + (c \div Limb)
    IN  <<a + (b2 \div Limb), b2 % Limb, c % Limb>>

\* The spacing of the doubles around x, in units: 2^53 units is 2^-5.
Spacing(x) ==
    IF x[1] < 8192 THEN 1
    ELSE IF x[1] < 16384 THEN 2
    ELSE IF x[1] < 32768 THEN 4
    ELSE 8

\* x rounded to the nearest double, ties to the even one.
RoundToDouble(x) ==
    LET step == Spacing(x)
        rem  == x[3] % step
        down == <<x[1], x[2], x[3] - rem>>
        up   == Carried(x[1], x[2], x[3] - rem + step)
    IN  IF rem = 0 THEN x
        ELSE IF 2 * rem < step THEN down
        ELSE IF 2 * rem > step THEN up
        ELSE IF ((x[3] - rem) \div step) % 2 = 0 THEN down
        ELSE up

\* 1.0 / d for d in 33..64, by long division and one rounding.
DoubleReciprocal(d) ==
    LET a  == TopLimbOfOne \div d
        r1 == TopLimbOfOne % d
        b  == (r1 * Limb) \div d
        r2 == (r1 * Limb) % d
        c  == (r2 * Limb) \div d
        r3 == (r2 * Limb) % d
    IN  IF 2 * r3 < d THEN <<a, b, c>>
        ELSE IF 2 * r3 > d THEN Carried(a, b, c + 1)
        ELSE IF c % 2 = 0 THEN <<a, b, c>>
        ELSE Carried(a, b, c + 1)

\* rrf_score = weight / (self.k + rank) for the weights 1.0 and 2.0: the
\* quotient of 2.0 is the quotient of 1.0 doubled, which is exact.
DoubleRRFScore(weight, rank) ==
    LET q == DoubleReciprocal(RRF_K + rank)
    IN  IF weight = 1 THEN q ELSE Carried(2 * q[1], 2 * q[2], 2 * q[3])

DoubleAssign(x, y) == y

\* doc_scores[doc_id] += rrf_score
DoubleAdd(x, y) == RoundToDouble(Carried(x[1] + y[1], x[2] + y[2], x[3] + y[3]))

\* doc_scores[doc_id] after the two loops, the defaultdict starting it at 0.0.
RECURSIVE DoubleScoreFrom(_, _, _)
DoubleScoreFrom(score, entries, doc_id) ==
    IF entries = <<>> THEN score
    ELSE DoubleScoreFrom(
             IF GetDocId(Head(entries).doc) = doc_id
             THEN DoubleAdd(score, DoubleRRFScore(Head(entries).weight,
                                                  Head(entries).rank))
             ELSE score,
             Tail(entries), doc_id)

DoubleScore(ranked_lists, weights, doc_id) ==
    DoubleScoreFrom(<<0, 0, 0>>,
                    ZipEntries(DefaultWeights(ranked_lists, weights), ranked_lists, 1),
                    doc_id)

----------------------------------------------------------------------------
(* fuse, called on its own *)

\* Explicit weights for n lists: every list gets weight 1 or 2.
WeightLists(n) == [1..n -> {1, 2}]

\* The ranked lists a call may be given: every sequence of distinct documents.
\* DocD and DocE share an identity, so an identity may still occur at two ranks of
\* one list.
RankedLists == DistinctSeqsUpTo(FuseDocs, Min(MaxDocs, MaxRank))

TotalLen(ranked_lists) == SumSeq([i \in 1..Len(ranked_lists) |-> Len(ranked_lists[i])])

\* The weights arguments for n lists: None, or one weight per list.
WeightArgs(n) == {None} \cup {Some(w) : w \in WeightLists(n)}

InitFuse ==
    /\ \E n \in 0..MaxLists :
         \E ls \in [1..n -> RankedLists] :
           \E w \in WeightArgs(n) :
             /\ TotalLen(ls) <= MaxDocs
             /\ fuse_call = [pc |-> "called", ranked_lists |-> ls,
                          weights |-> w, result |-> <<>>]
    /\ rerank_call = Idle
    /\ settings = Idle /\ retriever = Idle /\ retrieve_call = Idle
    /\ select_call = Idle /\ hybrid_call = Idle
    /\ hyde_call = Idle /\ multi_query_call = Idle
    /\ filter_call = Idle
    /\ other_calls = Idle

\* ranked_lists after the call: the loop of lines 54-65 only reads the lists, and
\* lines 79-82 build a new Document with a new metadata dict.
RankedListsAfterFuse(ranked_lists, weights) == ranked_lists

FuseReturn ==
    /\ fuse_call.pc = "called"
    /\ fuse_call' = [fuse_call EXCEPT
                       !.pc = "returned",
                       !.ranked_lists = RankedListsAfterFuse(fuse_call.ranked_lists,
                                                             fuse_call.weights),
                       !.result = Fuse(fuse_call.ranked_lists, fuse_call.weights)]
    /\ UNCHANGED <<rerank_call, pipeline, components>>

NextFuse == FuseReturn

SpecFuse == InitFuse /\ [][NextFuse]_vars

\* fuse called with a weights list of any length: shorter than the list of
\* ranked lists, as long, or longer.
AnyWeights ==
    {None} \cup {Some(w) : w \in SeqsUpTo({1, 2}, MaxLists + 1)}

InitFuseWeights ==
    /\ \E n \in 0..MaxLists :
         \E ls \in [1..n -> RankedLists] :
           \E w \in AnyWeights :
             /\ TotalLen(ls) <= MaxDocs
             /\ fuse_call = [pc |-> "called", ranked_lists |-> ls,
                             weights |-> w, result |-> <<>>]
    /\ rerank_call = Idle
    /\ settings = Idle /\ retriever = Idle /\ retrieve_call = Idle
    /\ select_call = Idle /\ hybrid_call = Idle
    /\ hyde_call = Idle /\ multi_query_call = Idle
    /\ filter_call = Idle
    /\ other_calls = Idle

SpecFuseWeights == InitFuseWeights /\ [][NextFuse]_vars

----------------------------------------------------------------------------
(* fuse called twice on the same ranked lists, the second time with the lists
   and their weights in another order.  Each call leaves its result and the
   float it stored in doc_scores for every identity. *)

MaxFused == 3

Bijections(S) == {f \in [S -> S] : \A x, y \in S : f[x] = f[y] => x = y}

\* [ranked_lists[j] for j in order] and the weights taken the same way.
PermutedLists(ranked_lists, order) ==
    [i \in 1..Len(ranked_lists) |-> ranked_lists[order[i]]]

PermutedWeights(weights, order) ==
    IF weights = None THEN None
    ELSE Some([i \in 1..Len(weights[1]) |-> weights[1][order[i]]])

\* The keys of doc_scores after the two loops.
ScoredIds(ranked_lists, weights) ==
    LET entries == ZipEntries(DefaultWeights(ranked_lists, weights), ranked_lists, 1)
    IN  {GetDocId(entries[i].doc) : i \in 1..Len(entries)}

\* doc_scores after the two loops.
DoubleScores(ranked_lists, weights) ==
    [doc_id \in ScoredIds(ranked_lists, weights) |->
        DoubleScore(ranked_lists, weights, doc_id)]

InitPermuted ==
    /\ \E n \in 1..MaxFused :
         \E ls \in [1..n -> DistinctSeqsUpTo({DocA, DocB}, 2)] :
           \E w \in {None} \cup {Some(x) : x \in [1..n -> {1, 2}]} :
             \E order \in Bijections(1..n) :
               /\ TotalLen(ls) <= MaxDocs
               /\ fuse_call = [pc |-> "called", ranked_lists |-> ls,
                               weights |-> w, order |-> order,
                               result |-> <<>>, doc_scores |-> <<>>,
                               permuted_result |-> <<>>,
                               permuted_doc_scores |-> <<>>]
    /\ rerank_call = Idle
    /\ settings = Idle /\ retriever = Idle /\ retrieve_call = Idle
    /\ select_call = Idle /\ hybrid_call = Idle
    /\ hyde_call = Idle /\ multi_query_call = Idle
    /\ filter_call = Idle
    /\ other_calls = Idle

FuseInOrder ==
    /\ fuse_call.pc = "called"
    /\ fuse_call' = [fuse_call EXCEPT
                       !.pc = "returned",
                       !.result = Fuse(fuse_call.ranked_lists, fuse_call.weights),
                       !.doc_scores = DoubleScores(fuse_call.ranked_lists,
                                                   fuse_call.weights)]
    /\ UNCHANGED <<rerank_call, filter_call, other_calls, pipeline, select_call, hybrid_call,
                   hyde_call, multi_query_call>>

FusePermuted ==
    /\ fuse_call.pc = "returned"
    /\ LET ls == PermutedLists(fuse_call.ranked_lists, fuse_call.order)
           w  == PermutedWeights(fuse_call.weights, fuse_call.order)
       IN  fuse_call' = [fuse_call EXCEPT
                           !.pc = "permuted",
                           !.permuted_result = Fuse(ls, w),
                           !.permuted_doc_scores = DoubleScores(ls, w)]
    /\ UNCHANGED <<rerank_call, filter_call, other_calls, pipeline, select_call, hybrid_call,
                   hyde_call, multi_query_call>>

NextPermuted == FuseInOrder \/ FusePermuted

SpecPermuted == InitPermuted /\ [][NextPermuted]_vars

----------------------------------------------------------------------------
(* CrossEncoderReranker *)

\* The candidates handed to rerank, and the values model.predict gives.  DocA and
\* DocD have the same content, hence always the same score.
RerankDocs == {DocA, DocB, DocC, DocD}

Contents == {d.page_content : d \in RerankDocs \cup FuseDocs \cup {DocX}}

PredictScores == {-5, 20, 80}

\* self.model.predict for the query of the call: it raises, or it gives every
\* [query, page_content] pair the score of the content.
Predictors == [raises : BOOLEAN, score : [Contents -> PredictScores]]

\* doc_scores.sort(key=lambda x: x[1], reverse=True)
SortDocScoresAscending(doc_scores) ==
    LET desc == SortedByScoreFrom(<<>>, doc_scores, FALSE)
    IN  [i \in 1..Len(desc) |-> desc[Len(desc) + 1 - i]]

SortDocScores(doc_scores) == SortedByScoreFrom(<<>>, doc_scores, FALSE)

\* The candidate itself, no score added.
WithoutRerankScore(item) == item.doc

\* Document(page_content=doc.page_content,
\*          metadata={**doc.metadata, "rerank_score": float(score)})
WithRerankScore(item) ==
    Document(item.doc.page_content,
             [item.doc.metadata EXCEPT !.rerank_score = Some(item.score)])

\* return documents[:top_k], both before the try and in the except branch.
RerankFailClosed(documents, top_k) == <<>>

RerankFailOpen(documents, top_k) == Take(documents, top_k)

\* The try block when predict returns.
RerankScored(predict, documents, top_k) ==
    LET doc_scores == [i \in 1..Len(documents) |->
                          [doc |-> documents[i],
                           score |-> predict.score[documents[i].page_content]]]
        top == Take(SortDocScores(doc_scores), top_k)
    IN  [i \in 1..Len(top) |-> WithRerankScore(top[i])]

\* rerank(query, documents, top_k); model is "self.model is not None".
Rerank(model, predict, documents, top_k) ==
    IF ~model \/ documents = <<>> THEN RerankFailOpen(documents, top_k)
    ELSE IF predict.raises THEN RerankFailOpen(documents, top_k)
    ELSE RerankScored(predict, documents, top_k)

----------------------------------------------------------------------------
(* rerank, called on its own *)

InitRerank ==
    /\ \E model \in BOOLEAN, predict \in Predictors, top_k \in 1..MaxTopK :
         \E documents \in DistinctSeqsUpTo(RerankDocs, Cardinality(RerankDocs)) :
             rerank_call = [pc |-> "called", model |-> model, predict |-> predict,
                            documents |-> documents, top_k |-> top_k,
                            result |-> <<>>]
    /\ fuse_call = Idle
    /\ settings = Idle /\ retriever = Idle /\ retrieve_call = Idle
    /\ select_call = Idle /\ hybrid_call = Idle
    /\ hyde_call = Idle /\ multi_query_call = Idle
    /\ filter_call = Idle
    /\ other_calls = Idle

\* documents after a call that sorts the list itself.
DocumentsSortedInPlace(model, predict, documents, top_k) ==
    IF ~model \/ predict.raises THEN documents
    ELSE LET sorted == SortDocScores([i \in 1..Len(documents) |->
                           [doc |-> documents[i],
                            score |-> predict.score[documents[i].page_content]]])
         IN  [i \in 1..Len(sorted) |-> sorted[i].doc]

\* documents after the call: line 63 zips them into a new list, which is the
\* one sorted, and lines 69-72 build a new Document with a new metadata dict.
DocumentsAfterRerank(model, predict, documents, top_k) == documents

RerankReturn ==
    /\ rerank_call.pc = "called"
    /\ rerank_call' = [rerank_call EXCEPT
                         !.pc = "returned",
                         !.documents = DocumentsAfterRerank(rerank_call.model,
                                           rerank_call.predict, rerank_call.documents,
                                           rerank_call.top_k),
                         !.result = Rerank(rerank_call.model, rerank_call.predict,
                                           rerank_call.documents, rerank_call.top_k)]
    /\ UNCHANGED <<fuse_call, pipeline, components>>

NextRerank == RerankReturn

SpecRerank == InitRerank /\ [][NextRerank]_vars

----------------------------------------------------------------------------
(* Calls that may raise: the value a call returns, or the exception it raises *)

Ok(v) == [raised |-> FALSE, value |-> v]

Raise == [raised |-> TRUE, value |-> <<>>]

----------------------------------------------------------------------------
(* The document store: SupabaseVectorStoreWrapper over FixedSupabaseVectorStore *)

\* The rows of the table.
StoreDocs == {DocA, DocB, DocC, DocX}

\* The metadata filter of a search: None, or Some(filename).
Matches(doc, filter) == filter = None \/ doc.metadata.filename = filter[1]

Reverse(seq) == [i \in 1..Len(seq) |-> seq[Len(seq) + 1 - i]]

\* What the Supabase client does in one search: it raises, or it ranks the rows
\* for the text searched: "ranked" is the ranking for the user's query, "reversed"
\* a ranking another text (a hypothesis, a paraphrase) may get.
ClientOutcomes == {"raises", "ranked", "reversed"}

\* match_documents with match_count k and the filter: the k best matching rows.
MatchDocuments(outcome, rows, k, filter) ==
    LET ranking == IF outcome = "reversed" THEN Reverse(rows) ELSE rows
    IN  Take(SelectSeq(ranking, LAMBDA d : Matches(d, filter)), k)

\* FixedSupabaseVectorStore.similarity_search: every failure is caught and gives
\* the empty list.
FixedSimilaritySearch(outcome, rows, k, filter) ==
    IF outcome = "raises" THEN Ok(<<>>)
    ELSE Ok(MatchDocuments(outcome, rows, k, filter))

\* A search with no handler between the client and the caller.
SimilaritySearchUnguarded(outcome, rows, k, filter) ==
    IF outcome = "raises" THEN Raise
    ELSE Ok(MatchDocuments(outcome, rows, k, filter))

\* SupabaseVectorStoreWrapper.similarity_search (score_threshold is never given):
\* try: return self.vector_store.similarity_search(...) except Exception: return []
SimilaritySearch(outcome, rows, k, filter) ==
    LET results == FixedSimilaritySearch(outcome, rows, k, filter)
    IN  IF results.raised THEN Ok(<<>>) ELSE results

\* similarity_search_with_score, k rows with their similarity.  The similarity of
\* the row at rank i is SimilarityAt(i); a response whose rows carry a null
\* similarity ("unscored") gives the score None to every row.  A raise gives [].
SimilarityAt(rank) == 100 - 10 * rank

VectorOutcomes == {"raises", "ranked", "unscored"}

SimilaritySearchWithScore(outcome, rows, k) ==
    IF outcome = "raises" THEN <<>>
    ELSE LET found == MatchDocuments("ranked", rows, k, None)
         IN  [i \in 1..Len(found) |->
                 [doc |-> found[i],
                  obj |-> <<"vector", i>>,
                  score |-> IF outcome = "unscored" THEN None
                            ELSE Some(SimilarityAt(i))]]

\* _simple_keyword_score, in units of 1 / len(query_terms): the number of query
\* terms the content holds.
SimpleKeywordScore(query_length, page_content) == Min(query_length, page_content - 1)

\* _keyword_search: the rows of the text search or, when that raises, of the
\* ilike search; [] when both raise.
KeywordOutcomes ==
    {<<"ranked">>, <<"reversed">>, <<"raises", "ranked">>, <<"raises", "raises">>}

KeywordSearch(outcome, rows, query_length, k) ==
    LET last  == outcome[Len(outcome)]
        found == IF last = "raises" THEN <<>>
                 ELSE MatchDocuments(last, rows, k, None)
    IN  [i \in 1..Len(found) |->
            [doc |-> found[i],
             obj |-> <<"keyword", i>>,
             score |-> Some(SimpleKeywordScore(query_length, found[i].page_content))]]

\* normalize_scores: each score becomes (score - min) / range, kept as the
\* numerator with the range beside it.
ScoreSet(results) == {results[i].score[1] : i \in 1..Len(results)}

MinOf(S) == CHOOSE x \in S : \A y \in S : x <= y

MaxOf(S) == CHOOSE x \in S : \A y \in S : x >= y

\* The range with no guard for equal scores.
ScoreRangeUnguarded(results) ==
    IF results = <<>> THEN 1
    ELSE MaxOf(ScoreSet(results)) - MinOf(ScoreSet(results))

ScoreRange(results) ==
    IF results = <<>> THEN 1
    ELSE LET lo == MinOf(ScoreSet(results))
             hi == MaxOf(ScoreSet(results))
         IN  IF hi # lo THEN hi - lo ELSE 1

NormalizeScores(results) ==
    [i \in 1..Len(results) |->
        [results[i] EXCEPT !.score = results[i].score[1] - MinOf(ScoreSet(results))]]

\* doc_scores, keyed by id(doc.page_content): the vector entries, then each
\* keyword entry merged into the entry of its key or appended.
RECURSIVE MergeKeyword(_, _)
MergeKeyword(doc_scores, keyword) ==
    IF keyword = <<>> THEN doc_scores
    ELSE LET item == Head(keyword)
             at   == {i \in 1..Len(doc_scores) : doc_scores[i].obj = item.obj}
         IN  MergeKeyword(
                 IF at # {}
                 THEN [doc_scores EXCEPT
                          ![CHOOSE i \in at : TRUE].keyword_score = item.score]
                 ELSE Append(doc_scores,
                             [doc |-> item.doc, obj |-> item.obj,
                              vector_score |-> 0, keyword_score |-> item.score]),
                 Tail(keyword))

\* _combine_results.  The final score vector_weight * v / vrange +
\* keyword_weight * k / krange is kept times 10 * vrange * krange.
VectorWeight == 7

KeywordWeight == 3

CombineScored(vector_results, keyword_results) ==
    LET vrange == ScoreRange(vector_results)
        krange == ScoreRange(keyword_results)
        vector_entries == [i \in 1..Len(vector_results) |->
            [doc |-> vector_results[i].doc, obj |-> vector_results[i].obj,
             vector_score |-> NormalizeScores(vector_results)[i].score,
             keyword_score |-> 0]]
        doc_scores == MergeKeyword(vector_entries, NormalizeScores(keyword_results))
        results == [i \in 1..Len(doc_scores) |->
            [doc |-> doc_scores[i].doc,
             score |-> VectorWeight * doc_scores[i].vector_score * krange
                       + KeywordWeight * doc_scores[i].keyword_score * vrange]]
    IN  SortedByScoreFrom(<<>>, results, FALSE)

\* return [doc for doc, _ in results]
CombineResults(vector_results, keyword_results) ==
    LET results == CombineScored(vector_results, keyword_results)
    IN  [i \in 1..Len(results) |-> results[i].doc]

\* hybrid_search(query, k): 2k rows from each search, no filter; arithmetic on a
\* null similarity raises, and any raise gives similarity_search(query, k).
HybridOutcomes == VectorOutcomes \X KeywordOutcomes \X {"raises", "ranked"}

HybridSearch(outcome, rows, query_length, k) ==
    LET vector_results  == SimilaritySearchWithScore(outcome[1], rows, k * 2)
        keyword_results == KeywordSearch(outcome[2], rows, query_length, k * 2)
    IN  IF \E i \in 1..Len(vector_results) : vector_results[i].score = None
        THEN SimilaritySearch(outcome[3], rows, k, None)
        ELSE Ok(Take(CombineResults(vector_results, keyword_results), k))

----------------------------------------------------------------------------
(* _combine_results on its own *)

\* The longest result list handed to _combine_results.
MaxResults == 2

CombineDocs == {DocA, DocB, DocC}

VectorScores == {50, 90}

KeywordScores == {50, 100}

\* The vector results: distinct documents, each with its own content object.
VectorResults ==
    {[i \in 1..Len(docs) |-> [doc |-> docs[i], obj |-> <<"vector", i>>,
                              score |-> Some(scores[i])]] :
        docs \in DistinctSeqsUpTo(CombineDocs, MaxResults),
        scores \in [1..MaxResults -> VectorScores]}

\* The keyword results for given vector results.  The content of a keyword
\* document that is also among the vector results is the very object of the
\* vector document (shared[i]) or an equal string of its own, as it is when
\* the two lists are built from two responses.
KeywordResults(vector_results) ==
    {[i \in 1..Len(docs) |->
        [doc |-> docs[i],
         obj |-> IF shared[i] /\ \E j \in 1..Len(vector_results) :
                                     vector_results[j].doc = docs[i]
                 THEN <<"vector", CHOOSE j \in 1..Len(vector_results) :
                                      vector_results[j].doc = docs[i]>>
                 ELSE <<"keyword", i>>,
         score |-> Some(scores[i])]] :
        docs \in DistinctSeqsUpTo(CombineDocs, MaxResults),
        scores \in [1..MaxResults -> KeywordScores],
        shared \in [1..MaxResults -> BOOLEAN]}

InitCombine ==
    /\ fuse_call = Idle
    /\ rerank_call = Idle
    /\ settings = Idle /\ retriever = Idle /\ retrieve_call = Idle
    /\ select_call = Idle /\ hyde_call = Idle /\ multi_query_call = Idle
    /\ \E vector_results \in VectorResults :
       \E keyword_results \in KeywordResults(vector_results) :
          hybrid_call = [pc |-> "called",
                         vector_results |-> vector_results,
                         keyword_results |-> keyword_results,
                         vector_normalized |-> <<>>, vector_range |-> 0,
                         keyword_normalized |-> <<>>, keyword_range |-> 0,
                         scored |-> <<>>, result |-> <<>>]
    /\ filter_call = Idle
    /\ other_calls = Idle

CombineReturn ==
    /\ hybrid_call.pc = "called"
    /\ hybrid_call' = [hybrid_call EXCEPT
          !.pc = "returned",
          !.vector_normalized = NormalizeScores(hybrid_call.vector_results),
          !.vector_range = ScoreRange(hybrid_call.vector_results),
          !.keyword_normalized = NormalizeScores(hybrid_call.keyword_results),
          !.keyword_range = ScoreRange(hybrid_call.keyword_results),
          !.scored = CombineScored(hybrid_call.vector_results,
                                   hybrid_call.keyword_results),
          !.result = CombineResults(hybrid_call.vector_results,
                                    hybrid_call.keyword_results)]
    /\ UNCHANGED <<fuse_call, rerank_call, filter_call, other_calls, pipeline,
                   select_call, hyde_call, multi_query_call>>

NextCombine == CombineReturn

SpecCombine == InitCombine /\ [][NextCombine]_vars

----------------------------------------------------------------------------
(* HyDERetriever *)

NumHypotheses == 3

\* llm.invoke for one hypothesis: it raises, or gives blank text, or a text.
LLMOutcomes == {"raises", "blank", "text"}

\* The search strings of a HyDE call: Query is the original query, i the text
\* the language model produced at attempt i.
Query == 0

\* The attempts _generate_hypotheses makes, generated[i] being what the
\* language model does at attempt i: the loop ends at the first exception.
Attempts(generated) ==
    IF \E i \in 1..Len(generated) : generated[i] = "raises"
    THEN CHOOSE i \in 1..Len(generated) :
             /\ generated[i] = "raises"
             /\ \A j \in 1..(i - 1) : generated[j] # "raises"
    ELSE Len(generated)

\* The hypotheses collected by the loop when no attempt raises.
RECURSIVE Collected(_, _)
Collected(generated, i) ==
    IF i > Len(generated) THEN <<>>
    ELSE IF generated[i] = "text" THEN <<i>> \o Collected(generated, i + 1)
    ELSE Collected(generated, i + 1)

\* _generate_hypotheses without the final "or [query]".
GenerateHypothesesNoDefault(generated) ==
    IF \E i \in 1..Len(generated) : generated[i] = "raises" THEN <<Query>>
    ELSE Collected(generated, 1)

\* _generate_hypotheses with num_hypotheses = Len(generated): an exception at
\* any attempt replaces the whole list by [query]; an empty list becomes [query].
GenerateHypotheses(generated) ==
    IF \E i \in 1..Len(generated) : generated[i] = "raises" THEN <<Query>>
    ELSE IF Collected(generated, 1) = <<>> THEN <<Query>>
    ELSE Collected(generated, 1)

\* The number of generated hypotheses; 0 stands for the list [query].
HypothesisCount(hypotheses) ==
    IF hypotheses = <<Query>> THEN 0 ELSE Len(hypotheses)

\* _deduplicate_documents that keeps every document.
DeduplicateNot(unique_docs, documents) == unique_docs \o documents

\* _deduplicate_documents: the first document of each content hash.
RECURSIVE DeduplicateDocuments(_, _)
DeduplicateDocuments(unique_docs, documents) ==
    IF documents = <<>> THEN unique_docs
    ELSE DeduplicateDocuments(
             IF \E i \in 1..Len(unique_docs) :
                    Hash(unique_docs[i].page_content) = Hash(Head(documents).page_content)
             THEN unique_docs
             ELSE Append(unique_docs, Head(documents)),
             Tail(documents))

\* retrieve(query, k, filters), given the outcome of the search of each hypothesis.
HydeRetrieve(searched, rows, k, filters) ==
    LET docs == [i \in 1..Len(searched) |->
                    SimilaritySearch(searched[i], rows, k, filters)]
    IN  IF \E i \in 1..Len(docs) : docs[i].raised
        THEN SimilaritySearch("ranked", rows, k, filters)
        ELSE Ok(Take(DeduplicateDocuments(<<>>,
                         Concat([i \in 1..Len(docs) |-> docs[i].value])), k))

----------------------------------------------------------------------------
(* HyDERetriever.retrieve on its own: one call with the outcome of every
   language-model attempt and of every hypothesis search chosen by the
   environment *)

\* The largest k of a call.
MaxNeighbours == 3

HydeTables ==
    {<<>>, <<DocA>>, <<DocC, DocX>>, <<DocB, DocX, DocA>>, <<DocA, DocC, DocB, DocX>>}

\* The rankings the store can give for a search string: the table's own order
\* for the original query, either order for a generated text.
SearchOutcomes(hypothesis) ==
    IF hypothesis = Query THEN {"raises", "ranked"} ELSE ClientOutcomes

InitHyde ==
    /\ \E num_hypotheses \in 0..NumHypotheses :
       \E generated \in [1..num_hypotheses -> LLMOutcomes] :
       \E rows \in HydeTables :
       \E k \in 1..MaxNeighbours :
       \E filters \in {None, Some(1)} :
          hyde_call = [pc |-> "called",
                       num_hypotheses |-> num_hypotheses,
                       generated |-> generated,
                       rows |-> rows,
                       k |-> k,
                       filters |-> filters,
                       attempts |-> 0,
                       hypotheses |-> <<>>,
                       searched |-> <<>>,
                       neighbours |-> <<>>,
                       result |-> <<>>,
                       raised |-> FALSE]
    /\ fuse_call = Idle
    /\ rerank_call = Idle
    /\ settings = Idle
    /\ retriever = Idle
    /\ retrieve_call = Idle
    /\ select_call = Idle
    /\ hybrid_call = Idle
    /\ multi_query_call = Idle
    /\ filter_call = Idle
    /\ other_calls = Idle

\* hypotheses = self._generate_hypotheses(query)
HydeGenerate ==
    /\ hyde_call.pc = "called"
    /\ hyde_call' = [hyde_call EXCEPT
                        !.pc = "generated",
                        !.attempts = Attempts(hyde_call.generated),
                        !.hypotheses = GenerateHypotheses(hyde_call.generated)]
    /\ UNCHANGED <<fuse_call, rerank_call, filter_call, other_calls, pipeline, select_call, hybrid_call,
                   multi_query_call>>

\* The loop over the hypotheses, the deduplication and the return.
HydeSearch ==
    /\ hyde_call.pc = "generated"
    /\ \E searched \in [1..Len(hyde_call.hypotheses) -> ClientOutcomes] :
          /\ \A i \in 1..Len(searched) :
                 searched[i] \in SearchOutcomes(hyde_call.hypotheses[i])
          /\ LET returned == HydeRetrieve(searched, hyde_call.rows, hyde_call.k,
                                          hyde_call.filters)
             IN  hyde_call' = [hyde_call EXCEPT
                                  !.pc = "returned",
                                  !.searched = searched,
                                  !.neighbours =
                                      [i \in 1..Len(searched) |->
                                          SimilaritySearch(searched[i], hyde_call.rows,
                                                           hyde_call.k,
                                                           hyde_call.filters).value],
                                  !.raised = returned.raised,
                                  !.result = IF returned.raised THEN <<>>
                                             ELSE returned.value]
    /\ UNCHANGED <<fuse_call, rerank_call, filter_call, other_calls, pipeline, select_call, hybrid_call,
                   multi_query_call>>

NextHyde == HydeGenerate \/ HydeSearch

SpecHyde == InitHyde /\ [][NextHyde]_vars

----------------------------------------------------------------------------
(* AdvancedRAGRetriever *)

\* The selection with the first limit taken one token late.
SelectStrategyLate(query_length, enable_hybrid, enable_hyde) ==
    IF query_length <= 5 THEN "simple"
    ELSE IF query_length <= 15 /\ enable_hybrid THEN "hybrid"
    ELSE IF enable_hyde THEN "advanced"
    ELSE IF enable_hybrid THEN "hybrid" ELSE "simple"

\* _select_strategy, on the number of whitespace-separated tokens of the query.
SelectStrategy(query_length, enable_hybrid, enable_hyde) ==
    IF query_length < 5 THEN "simple"
    ELSE IF query_length < 15 /\ enable_hybrid THEN "hybrid"
    ELSE IF enable_hyde THEN "advanced"
    ELSE IF enable_hybrid THEN "hybrid" ELSE "simple"

\* doc.metadata.get('score', 1.0), in hundredths.
ScoreOrDefault(doc) ==
    IF doc.metadata.score = None THEN Float(100) ELSE doc.metadata.score[1]

\* _filter_by_threshold.  score >= threshold raises TypeError when the stored
\* 'score' is a string.
FilterByThreshold(documents, similarity_threshold) ==
    IF \E i \in 1..Len(documents) : ScoreOrDefault(documents[i]).type = "str"
    THEN Raise
    ELSE LET filtered == SelectSeq(documents,
                 LAMBDA d : ScoreOrDefault(d).value >= similarity_threshold)
         IN  Ok(IF filtered # <<>> THEN filtered ELSE documents)

\* _simple_retrieve(query, k, filters)
SimpleRetrieve(outcome, rows, k, filters) == SimilaritySearch(outcome, rows, k, filters)

\* _hybrid_retrieve(query, k, filters): the filters are not passed on.
HybridRetrieve(outcome, rows, query_length, k, filters) ==
    HybridSearch(outcome, rows, query_length, k)

\* _hyde_retrieve(query, k, filters)
HydeRetrieveBranch(searched, rows, k, filters) == HydeRetrieve(searched, rows, k, filters)

\* MultiQueryRetriever.unique_union: the first of each run of equal documents.
RECURSIVE UniqueUnion(_, _)
UniqueUnion(unique, documents) ==
    IF documents = <<>> THEN unique
    ELSE UniqueUnion(
             IF \E i \in 1..Len(unique) : unique[i] = Head(documents)
             THEN unique ELSE Append(unique, Head(documents)),
             Tail(documents))

\* The limit of a variant's search, taken as the whole k.
MultiQueryLimitWhole(k) == k

\* search_kwargs "k": k // 3
MultiQueryLimit(k) == k \div 3

\* _multi_query_retrieve(query, k, filters): the generation of the variants
\* raises and the simple search answers, or each variant is searched by the
\* retriever of the underlying store with k // 3 and the filters.
MultiQueryRetrieve(generated, searched, rows, k, filters) ==
    IF generated = "raises" THEN SimpleRetrieve(searched[1], rows, k, filters)
    ELSE Ok(UniqueUnion(<<>>,
                Concat([i \in 1..Len(searched) |->
                    FixedSimilaritySearch(searched[i], rows, MultiQueryLimit(k),
                                          filters).value])))

\* The searches _multi_query_retrieve makes, in order.
MultiQuerySearches(generated, searched, k, filters) ==
    IF generated = "raises"
    THEN <<[op |-> "similarity_search", k |-> k, filters |-> filters]>>
    ELSE [i \in 1..Len(searched) |->
             [op |-> "multi_query", k |-> MultiQueryLimit(k), filters |-> filters]]

----------------------------------------------------------------------------
(* _multi_query_retrieve on its own *)

\* The largest k of a call.
MaxLimit == 6

\* The most variants the expansion generates.
MaxVariants == 2

InitMultiQuery ==
    /\ \E rows \in HydeTables :
       \E k \in 1..MaxLimit :
       \E filters \in {None, Some(1)} :
          multi_query_call = [pc |-> "called",
                              rows |-> rows,
                              k |-> k,
                              filters |-> filters,
                              generated |-> "",
                              searched |-> <<>>,
                              searches |-> <<>>,
                              result |-> <<>>,
                              raised |-> FALSE]
    /\ fuse_call = Idle
    /\ rerank_call = Idle
    /\ settings = Idle
    /\ retriever = Idle
    /\ retrieve_call = Idle
    /\ select_call = Idle
    /\ hybrid_call = Idle
    /\ hyde_call = Idle
    /\ filter_call = Idle
    /\ other_calls = Idle

MultiQueryReturn ==
    /\ multi_query_call.pc = "called"
    /\ \E generated \in {"raises", "variants"} :
       \E n \in 1..MaxVariants :
       \E searched \in [1..n -> ClientOutcomes] :
          /\ generated = "raises" => n = 1 /\ searched[1] # "reversed"
          /\ LET returned == MultiQueryRetrieve(generated, searched,
                                                multi_query_call.rows,
                                                multi_query_call.k,
                                                multi_query_call.filters)
             IN  multi_query_call' =
                     [multi_query_call EXCEPT
                         !.pc = "returned",
                         !.generated = generated,
                         !.searched = searched,
                         !.searches = MultiQuerySearches(generated, searched,
                                                         multi_query_call.k,
                                                         multi_query_call.filters),
                         !.raised = returned.raised,
                         !.result = IF returned.raised THEN <<>> ELSE returned.value]
    /\ UNCHANGED <<fuse_call, rerank_call, filter_call, other_calls, pipeline, select_call, hybrid_call, hyde_call>>

NextMultiQuery == MultiQueryReturn

SpecMultiQuery == InitMultiQuery /\ [][NextMultiQuery]_vars

----------------------------------------------------------------------------
(* _filter_by_threshold on its own, and the three stages that take passages *)

\* The lists handed to the filter.
FilterLists == DistinctSeqsUpTo(StoreDocs, MaxResults)

\* similarity_threshold when the filter is called, in hundredths.
FilterThresholds == {50, 70}

InitFilter ==
    /\ \E documents \in FilterLists, similarity_threshold \in FilterThresholds :
          filter_call = [pc |-> "called",
                         documents |-> documents,
                         similarity_threshold |-> similarity_threshold,
                         result |-> <<>>,
                         raised |-> FALSE]
    /\ fuse_call = Idle
    /\ rerank_call = Idle
    /\ settings = Idle
    /\ retriever = Idle
    /\ retrieve_call = Idle
    /\ select_call = Idle
    /\ hybrid_call = Idle
    /\ hyde_call = Idle
    /\ multi_query_call = Idle
    /\ other_calls = Idle

\* documents after the call: the loop of lines 247-250 only reads the list and
\* appends the passing documents to a new one.
DocumentsAfterFilter(documents, similarity_threshold) == documents

FilterReturn ==
    /\ filter_call.pc = "called"
    /\ LET filtered == FilterByThreshold(filter_call.documents,
                                         filter_call.similarity_threshold)
       IN  filter_call' = [filter_call EXCEPT
                              !.pc = "returned",
                              !.documents =
                                  DocumentsAfterFilter(filter_call.documents,
                                                       filter_call.similarity_threshold),
                              !.raised = filtered.raised,
                              !.result = IF filtered.raised THEN <<>>
                                         ELSE filtered.value]
    /\ UNCHANGED <<fuse_call, rerank_call, other_calls, pipeline, select_call,
                   hybrid_call, hyde_call, multi_query_call>>

NextFilter == FilterReturn

\* One call of fuse, of rerank or of the filter.
InitStages == InitFuse \/ InitRerank \/ InitFilter

NextStages == NextFuse \/ NextRerank \/ NextFilter

SpecStages == InitStages /\ [][NextStages]_vars

----------------------------------------------------------------------------
(* _select_strategy on its own *)

\* The longest query, in tokens.
MaxTokens == 16

InitSelect ==
    /\ fuse_call = Idle
    /\ rerank_call = Idle
    /\ settings = Idle /\ retriever = Idle /\ retrieve_call = Idle
    /\ hybrid_call = Idle /\ hyde_call = Idle /\ multi_query_call = Idle
    /\ \E query_length \in 0..MaxTokens, enable_hybrid \in BOOLEAN, enable_hyde \in BOOLEAN :
          select_call = [pc |-> "called", query_length |-> query_length,
                         enable_hybrid |-> enable_hybrid, enable_hyde |-> enable_hyde,
                         result |-> ""]
    /\ filter_call = Idle
    /\ other_calls = Idle

SelectReturn ==
    /\ select_call.pc = "called"
    /\ select_call' = [select_call EXCEPT
                         !.pc = "returned",
                         !.result = SelectStrategy(select_call.query_length,
                                                   select_call.enable_hybrid,
                                                   select_call.enable_hyde)]
    /\ UNCHANGED <<fuse_call, rerank_call, filter_call, other_calls, pipeline,
                   hybrid_call, hyde_call, multi_query_call>>

NextSelect == SelectReturn

SpecSelect == InitSelect /\ [][NextSelect]_vars

----------------------------------------------------------------------------
(* retrieve(query, top_k, filters, retrieval_strategy), a step at a time *)

TopKRetrieval == 3

TopKFinal == 2

MaxRows == 1

\* similarity_threshold, in hundredths: the filter is off, or the default 0.7.
Thresholds == {0, 70}

\* The rankings the store gives the rows for the user's query: every ranking of
\* up to MaxRows rows, and two of the whole table.
TableRankings ==
    DistinctSeqsUpTo(StoreDocs, MaxRows)
        \cup {<<DocA, DocC, DocB, DocX>>, <<DocB, DocX, DocA>>}

\* len(query.split()) on each side of the limits of _select_strategy.
QueryLengths == {4, 5, 15}

RetrievalStrategies == {"auto", "simple", "hybrid", "advanced", "fast"}

\* What the cross-encoder does in one rerank: predict raises, or it scores each
\* content below or above the default threshold.
RerankOutcomes ==
    {p \in Predictors : /\ \A c \in Contents : p.score[c] \in {20, 80}
                        /\ p.raises => \A c \in Contents : p.score[c] = 20}

Retrievers ==
    {r \in [enable_hyde : BOOLEAN, enable_reranking : BOOLEAN,
            enable_hybrid : BOOLEAN, reranker_model : BOOLEAN,
            rows : TableRankings] : r.reranker_model => r.enable_reranking}

RetrieveArgs ==
    {a \in [query_length : QueryLengths,
            top_k : {None} \cup {Some(n) : n \in 1..MaxTopK},
            filters : {None, Some(1)},
            retrieval_strategy : RetrievalStrategies] :
        a.retrieval_strategy # "auto" => a.query_length = 5}

\* The call frame of retrieve on entry.
Called(a) ==
    [pc |-> "called",
     query_length |-> a.query_length,
     top_k_arg |-> a.top_k,
     filters |-> a.filters,
     retrieval_strategy |-> a.retrieval_strategy,
     top_k |-> 0, initial_k |-> 0, strategy |-> "",
     searches |-> <<>>, all_results |-> <<>>,
     hypotheses |-> 0, documents |-> <<>>,
     reranked |-> FALSE, scored |-> FALSE,
     filter_arg |-> None,
     caught |-> FALSE,
     fallback_failed |-> FALSE, result |-> <<>>]

InitRetrieve ==
    /\ fuse_call = Idle
    /\ rerank_call = Idle
    /\ select_call = Idle /\ hybrid_call = Idle
    /\ hyde_call = Idle /\ multi_query_call = Idle
    /\ settings \in [top_k_retrieval : {TopKRetrieval}, top_k_final : {TopKFinal},
                     similarity_threshold : Thresholds]
    /\ retriever \in Retrievers
    /\ \E a \in RetrieveArgs : retrieve_call = Called(a)
    /\ filter_call = Idle
    /\ other_calls = Idle

\* The entry with the strategy selected by the token rule whatever was asked.
EnteredBySelection(call) ==
    [call EXCEPT
        !.top_k = IF call.top_k_arg = None THEN settings.top_k_final
                  ELSE call.top_k_arg[1],
        !.initial_k = settings.top_k_retrieval,
        !.strategy = SelectStrategy(call.query_length, retriever.enable_hybrid,
                                    retriever.enable_hyde)]

\* The entry when the strategy is honoured on the first call of a retriever
\* only, later calls being simple.
EnteredFirstCallOnly(call) ==
    [call EXCEPT
        !.top_k = IF call.top_k_arg = None THEN settings.top_k_final
                  ELSE call.top_k_arg[1],
        !.initial_k = settings.top_k_retrieval,
        !.strategy = IF other_calls.returned # None THEN "simple"
                     ELSE call.retrieval_strategy]

\* Lines 86-94: top_k or settings.top_k_final, settings.top_k_retrieval, and the
\* strategy, selected when it is "auto".
Entered(call) ==
    [call EXCEPT
        !.top_k = IF call.top_k_arg = None THEN settings.top_k_final
                  ELSE call.top_k_arg[1],
        !.initial_k = settings.top_k_retrieval,
        !.strategy = IF call.retrieval_strategy = "auto"
                     THEN SelectStrategy(call.query_length, retriever.enable_hybrid,
                                         retriever.enable_hyde)
                     ELSE call.retrieval_strategy]

\* Lines 97-106: the branch taken; a strategy that is not known is simple.
Branch(strategy) ==
    IF strategy \in {"advanced", "hybrid"} THEN strategy ELSE "simple"

Searched(call, op, k, filters) ==
    [call EXCEPT !.searches = Append(@, [op |-> op, k |-> k, filters |-> filters])]

\* documents, all of them.
TruncateNot(documents, top_k) == documents

\* documents[:top_k]
Truncate(documents, top_k) == Take(documents, top_k)

\* An exception inside the try block goes to the except branch of retrieve.
Outcome(call, results, pc) ==
    IF results.raised THEN [call EXCEPT !.pc = "except"]
    ELSE [call EXCEPT !.pc = pc, !.documents = results.value]

\* What a collaborator does when the call reaches it: any of its outcomes, or,
\* for a call made against mocked collaborators, the outcome the mock was given.
Answers(call, collaborator, outcomes) ==
    IF "mocks" \in DOMAIN call
    THEN {o \in outcomes : o = call.mocks[collaborator]}
    ELSE outcomes

\* The same for a collaborator called once per hypothesis or variant: the mock
\* holds the outcomes of its successive calls.
AnswerLists(call, collaborator, outcomes) ==
    IF "mocks" \in DOMAIN call
    THEN {o \in outcomes : \A i \in DOMAIN o : o[i] = call.mocks[collaborator][i]}
    ELSE outcomes

SimpleStrategy ==
    /\ retrieve_call.pc = "called"
    /\ Branch(Entered(retrieve_call).strategy) = "simple"
    /\ \E searched \in Answers(retrieve_call, "similarity_search",
                                {"raises", "ranked"}) :
          LET call == Entered(retrieve_call)
          IN  retrieve_call' =
                  Outcome(Searched(call, "similarity_search", call.initial_k, call.filters),
                          SimpleRetrieve(searched, retriever.rows, call.initial_k,
                                         call.filters),
                          "rerank")
    /\ UNCHANGED <<fuse_call, rerank_call, components, settings, retriever>>

HybridStrategy ==
    /\ retrieve_call.pc = "called"
    /\ Branch(Entered(retrieve_call).strategy) = "hybrid"
    /\ \E searched \in Answers(retrieve_call, "hybrid_search", HybridOutcomes) :
          LET call == Entered(retrieve_call)
          IN  retrieve_call' =
                  Outcome(Searched(call, "hybrid_search", call.initial_k, None),
                          HybridRetrieve(searched, retriever.rows, call.query_length,
                                         call.initial_k, call.filters),
                          "rerank")
    /\ UNCHANGED <<fuse_call, rerank_call, components, settings, retriever>>

\* _advanced_retrieve appends the list of a branch to all_results.
Appended(call, results, pc) ==
    IF results.raised THEN [call EXCEPT !.pc = "except"]
    ELSE [call EXCEPT !.pc = pc, !.all_results = Append(@, results.value)]

AdvancedStandard ==
    /\ retrieve_call.pc = "called"
    /\ Branch(Entered(retrieve_call).strategy) = "advanced"
    /\ \E searched \in Answers(retrieve_call, "similarity_search",
                                {"raises", "ranked"}) :
          LET call == Entered(retrieve_call)
          IN  retrieve_call' =
                  Appended(Searched(call, "similarity_search", call.initial_k, call.filters),
                           SimpleRetrieve(searched, retriever.rows, call.initial_k,
                                          call.filters),
                           IF retriever.enable_hyde THEN "hyde" ELSE "multi_query")
    /\ UNCHANGED <<fuse_call, rerank_call, components, settings, retriever>>

AdvancedHydeGenerate ==
    /\ retrieve_call.pc = "hyde"
    /\ \E generated \in AnswerLists(retrieve_call, "generate_hypotheses",
                                    [1..NumHypotheses -> LLMOutcomes]) :
          retrieve_call' = [retrieve_call EXCEPT
                               !.pc = "hyde_search",
                               !.hypotheses =
                                   HypothesisCount(GenerateHypotheses(generated))]
    /\ UNCHANGED <<fuse_call, rerank_call, components, settings, retriever>>

AdvancedHydeSearch ==
    /\ retrieve_call.pc = "hyde_search"
    /\ \E searched \in AnswerLists(retrieve_call, "hyde_search",
                           IF retrieve_call.hypotheses = 0
                           THEN [1..1 -> {"raises", "ranked"}]
                           ELSE [1..retrieve_call.hypotheses -> ClientOutcomes]) :
          retrieve_call' =
              Appended(Searched([retrieve_call EXCEPT !.hypotheses = 0], "hyde",
                                retrieve_call.initial_k, retrieve_call.filters),
                       HydeRetrieveBranch(searched, retriever.rows,
                                          retrieve_call.initial_k, retrieve_call.filters),
                       "multi_query")
    /\ UNCHANGED <<fuse_call, rerank_call, components, settings, retriever>>

AdvancedMultiQuery ==
    /\ retrieve_call.pc = "multi_query"
    /\ \E generated \in Answers(retrieve_call, "generate_queries",
                                 {"raises", "variants"}) :
       \E n \in Answers(retrieve_call, "variants", 1..MaxVariants) :
       \E searched \in AnswerLists(retrieve_call, "multi_query_search",
                                   [1..n -> ClientOutcomes]) :
          /\ generated = "raises" => n = 1 /\ searched[1] # "reversed"
          /\ retrieve_call' =
                 Appended(IF generated = "raises"
                          THEN Searched(retrieve_call, "similarity_search",
                                        retrieve_call.initial_k, retrieve_call.filters)
                          ELSE Searched(retrieve_call, "multi_query",
                                        MultiQueryLimit(retrieve_call.initial_k),
                                        retrieve_call.filters),
                          MultiQueryRetrieve(generated, searched, retriever.rows,
                                             retrieve_call.initial_k,
                                             retrieve_call.filters),
                          IF retriever.enable_hybrid THEN "hybrid" ELSE "fuse")
    /\ UNCHANGED <<fuse_call, rerank_call, components, settings, retriever>>

AdvancedHybrid ==
    /\ retrieve_call.pc = "hybrid"
    /\ \E searched \in Answers(retrieve_call, "hybrid_search", HybridOutcomes) :
          retrieve_call' =
              Appended(Searched(retrieve_call, "hybrid_search",
                                retrieve_call.initial_k, None),
                       HybridRetrieve(searched, retriever.rows,
                                      retrieve_call.query_length,
                                      retrieve_call.initial_k, retrieve_call.filters),
                       "fuse")
    /\ UNCHANGED <<fuse_call, rerank_call, components, settings, retriever>>

\* The fused list, whole.
FusedWhole(fused_documents, k) == fused_documents

\* fused_documents[:k]
FusedCut(fused_documents, k) == Take(fused_documents, k)

\* fused_documents = self.fusion.fuse(all_results); return fused_documents[:k],
\* and all_results is no more.
AdvancedFuse ==
    /\ retrieve_call.pc = "fuse"
    /\ retrieve_call' = [retrieve_call EXCEPT
                            !.pc = "rerank",
                            !.all_results = <<>>,
                            !.documents = FusedCut(Fuse(retrieve_call.all_results, None),
                                                   retrieve_call.initial_k)]
    /\ UNCHANGED <<fuse_call, rerank_call, components, settings, retriever>>

\* Lines 109-112: rerank when reranking is enabled and there are documents,
\* else documents[:top_k].
RerankStep ==
    /\ retrieve_call.pc = "rerank"
    /\ IF retriever.enable_reranking /\ retrieve_call.documents # <<>>
       THEN \E predict \in Answers(retrieve_call, "predict", RerankOutcomes) :
               retrieve_call' = [retrieve_call EXCEPT
                   !.pc = "filter",
                   !.reranked = TRUE,
                   !.scored = retriever.reranker_model /\ ~predict.raises,
                   !.documents = Rerank(retriever.reranker_model, predict,
                                        retrieve_call.documents, retrieve_call.top_k)]
       ELSE retrieve_call' = [retrieve_call EXCEPT
                   !.pc = "filter",
                   !.documents = Truncate(retrieve_call.documents,
                                          retrieve_call.top_k)]
    /\ UNCHANGED <<fuse_call, rerank_call, components, settings, retriever>>

\* Lines 115-119: the threshold filter when similarity_threshold > 0, and return.
FilterStep ==
    /\ retrieve_call.pc = "filter"
    /\ IF settings.similarity_threshold > 0
       THEN LET filtered == FilterByThreshold(retrieve_call.documents,
                                              settings.similarity_threshold)
                call == [retrieve_call EXCEPT
                            !.filter_arg = Some(retrieve_call.documents)]
            IN  retrieve_call' =
                    IF filtered.raised THEN [call EXCEPT !.pc = "except"]
                    ELSE [call EXCEPT !.pc = "returned", !.result = filtered.value]
       ELSE retrieve_call' = [retrieve_call EXCEPT
                                 !.pc = "returned",
                                 !.result = retrieve_call.documents]
    /\ UNCHANGED <<fuse_call, rerank_call, components, settings, retriever>>

\* Lines 121-124: return self._simple_retrieve(query, top_k, filters).  An
\* exception of this search leaves retrieve.
Fallback ==
    /\ retrieve_call.pc = "except"
    /\ \E searched \in Answers(retrieve_call, "fallback_search",
                                {"raises", "ranked"}) :
          LET call    == Searched([retrieve_call EXCEPT
                                      !.caught = TRUE,
                                      !.fallback_failed = searched = "raises"],
                                  "similarity_search", retrieve_call.top_k,
                                  retrieve_call.filters)
              results == SimpleRetrieve(searched, retriever.rows, retrieve_call.top_k,
                                        retrieve_call.filters)
          IN  retrieve_call' =
                  IF results.raised THEN [call EXCEPT !.pc = "raised"]
                  ELSE [call EXCEPT !.pc = "returned", !.result = results.value]
    /\ UNCHANGED <<fuse_call, rerank_call, components, settings, retriever>>

NextRetrieve ==
    \/ SimpleStrategy
    \/ HybridStrategy
    \/ AdvancedStandard
    \/ AdvancedHydeGenerate
    \/ AdvancedHydeSearch
    \/ AdvancedMultiQuery
    \/ AdvancedHybrid
    \/ AdvancedFuse
    \/ RerankStep
    \/ FilterStep
    \/ Fallback

SpecRetrieve == InitRetrieve /\ [][NextRetrieve]_vars

\* retrieve with every strategy name at query lengths on each side of the
\* limits of the token rule, over one store.
DispatchLengths == {0, 4, 5, 14, 15, MaxTokens}

InitDispatch ==
    /\ fuse_call = Idle
    /\ rerank_call = Idle
    /\ select_call = Idle /\ hybrid_call = Idle
    /\ hyde_call = Idle /\ multi_query_call = Idle
    /\ settings \in [top_k_retrieval : {TopKRetrieval}, top_k_final : {TopKFinal},
                     similarity_threshold : Thresholds]
    /\ retriever \in {r \in Retrievers : r.rows = <<DocB, DocX, DocA>>}
    /\ \E query_length \in DispatchLengths, retrieval_strategy \in RetrievalStrategies :
          retrieve_call = Called([query_length |-> query_length, top_k |-> None,
                                  filters |-> None,
                                  retrieval_strategy |-> retrieval_strategy])
    /\ filter_call = Idle
    /\ other_calls = Idle

SpecDispatch == InitDispatch /\ [][NextRetrieve]_vars

\* The end-to-end scenario: a query of 5 tokens over a store whose vector search
\* returns P1 (score 0.9) then P2 (score 0.4), with similarity_threshold 0.5;
\* and the same call over the store of the other specifications.
ScenarioThreshold == 50

ScenarioRows == <<DocA, DocB>>

InitScenario ==
    /\ fuse_call = Idle
    /\ rerank_call = Idle
    /\ select_call = Idle /\ hybrid_call = Idle
    /\ hyde_call = Idle /\ multi_query_call = Idle
    /\ settings = [top_k_retrieval |-> TopKRetrieval, top_k_final |-> TopKFinal,
                   similarity_threshold |-> ScenarioThreshold]
    /\ retriever \in {r \in [enable_hyde : BOOLEAN, enable_reranking : BOOLEAN,
                               enable_hybrid : BOOLEAN, reranker_model : BOOLEAN,
                               rows : {ScenarioRows, <<DocB, DocX, DocA>>}] :
                          r.reranker_model => r.enable_reranking}
    /\ \E top_k \in {None} \cup {Some(n) : n \in 1..MaxTopK},
          retrieval_strategy \in {"auto", "simple", "advanced"} :
          retrieve_call = Called([query_length |-> 5, top_k |-> top_k,
                                  filters |-> None,
                                  retrieval_strategy |-> retrieval_strategy])
    /\ filter_call = Idle
    /\ other_calls = Idle

SpecScenario == InitScenario /\ [][NextRetrieve]_vars

\* retrieve with each strategy named, over stores holding more passages than
\* the candidate pool.
PoolSizes == {TopKRetrieval - 1, TopKRetrieval}

InitPool ==
    /\ fuse_call = Idle
    /\ rerank_call = Idle
    /\ select_call = Idle /\ hybrid_call = Idle
    /\ hyde_call = Idle /\ multi_query_call = Idle
    /\ settings \in [top_k_retrieval : PoolSizes, top_k_final : {TopKFinal},
                     similarity_threshold : Thresholds]
    /\ retriever \in {r \in [enable_hyde : BOOLEAN, enable_reranking : BOOLEAN,
                               enable_hybrid : BOOLEAN, reranker_model : BOOLEAN,
                               rows : {<<DocB, DocX, DocA>>}] :
                          r.reranker_model => r.enable_reranking}
    /\ \E retrieval_strategy \in {"simple", "hybrid", "advanced"},
          filters \in {None, Some(1)} :
          retrieve_call = Called([query_length |-> 5, top_k |-> None,
                                  filters |-> filters,
                                  retrieval_strategy |-> retrieval_strategy])
    /\ filter_call = Idle
    /\ other_calls = Idle

SpecPool == InitPool /\ [][NextRetrieve]_vars

----------------------------------------------------------------------------
(* Calls of retrieve on one retriever, against mocked collaborators.  The first
   call runs alone and returns; then the same call is made again while another
   call is in progress, the steps of the two taken in any order.
   retrieve_call is the call that is running and other_calls holds the call
   that has returned and the call that waits for the processor. *)

\* Collaborators that answer, and collaborators that fail where they can.
Mocks ==
    {[similarity_search   |-> "ranked",
      hybrid_search       |-> <<"ranked", <<"reversed">>, "ranked">>,
      generate_hypotheses |-> <<"text", "text", "text">>,
      hyde_search         |-> <<"ranked", "reversed", "ranked">>,
      generate_queries    |-> "variants",
      variants            |-> 2,
      multi_query_search  |-> <<"ranked", "reversed">>,
      predict             |-> [raises |-> FALSE, score |-> [c \in Contents |-> 80]],
      fallback_search     |-> "ranked"],
     [similarity_search   |-> "ranked",
      hybrid_search       |-> <<"unscored", <<"raises", "ranked">>, "ranked">>,
      generate_hypotheses |-> <<"raises", "blank", "text">>,
      hyde_search         |-> <<"ranked", "raises", "raises">>,
      generate_queries    |-> "raises",
      variants            |-> 1,
      multi_query_search  |-> <<"ranked">>,
      predict             |-> [raises |-> TRUE, score |-> [c \in Contents |-> 20]],
      fallback_search     |-> "ranked"]}

MockedArgs ==
    [query_length : {5},
     top_k : {None, Some(1)},
     filters : {None},
     retrieval_strategy : {"simple", "hybrid", "advanced"}]

\* The call frame of retrieve on entry, with who calls and the mocks it meets.
Mocked(a, caller, mocks) == Called(a) @@ [caller |-> caller, mocks |-> mocks]

ArgsOf(call) ==
    [query_length |-> call.query_length, top_k |-> call.top_k_arg,
     filters |-> call.filters, retrieval_strategy |-> call.retrieval_strategy]

Finished(call) == call.pc \in {"returned", "raised"}

InitConcurrent ==
    /\ fuse_call = Idle
    /\ rerank_call = Idle
    /\ select_call = Idle /\ hybrid_call = Idle
    /\ hyde_call = Idle /\ multi_query_call = Idle
    /\ settings \in [top_k_retrieval : {TopKRetrieval}, top_k_final : {TopKFinal},
                     similarity_threshold : Thresholds]
    /\ retriever \in {r \in [enable_hyde : BOOLEAN, enable_reranking : BOOLEAN,
                               enable_hybrid : BOOLEAN, reranker_model : BOOLEAN,
                               rows : {<<DocB, DocX, DocA>>}] :
                          r.reranker_model = r.enable_reranking}
    /\ \E a \in MockedArgs, m \in Mocks :
          retrieve_call = Mocked(a, "first", m)
    /\ filter_call = Idle
    /\ \E a \in MockedArgs, m \in Mocks :
          other_calls = [returned |-> None,
                         waiting |-> Mocked(a, "other", m),
                         preempted |-> {}]

\* The first call has returned, and the same call is made again.
CallAgain ==
    /\ other_calls.returned = None
    /\ Finished(retrieve_call)
    /\ other_calls' = [other_calls EXCEPT !.returned = Some(retrieve_call)]
    /\ retrieve_call' = Mocked(ArgsOf(retrieve_call), "again", retrieve_call.mocks)
    /\ UNCHANGED <<fuse_call, rerank_call, settings, retriever, select_call,
                   hybrid_call, hyde_call, multi_query_call, filter_call>>

\* The running call loses the processor to the waiting call.  A call that is
\* between two of its steps when that happens has been preempted.
Switch ==
    /\ other_calls.returned # None
    /\ ~Finished(other_calls.waiting)
    /\ retrieve_call' = other_calls.waiting
    /\ other_calls' = [other_calls EXCEPT
                          !.waiting = retrieve_call,
                          !.preempted =
                              IF retrieve_call.pc = "called" \/ Finished(retrieve_call)
                              THEN @ ELSE @ \cup {retrieve_call.caller}]
    /\ UNCHANGED <<fuse_call, rerank_call, settings, retriever, select_call,
                   hybrid_call, hyde_call, multi_query_call, filter_call>>

NextConcurrent == NextRetrieve \/ CallAgain \/ Switch

SpecConcurrent == InitConcurrent /\ [][NextConcurrent]_vars

----------------------------------------------------------------------------
(* Properties of fuse *)

FuseReturned == fuse_call.pc = "returned"

\* The weight fuse pairs with list i.
WeightOf(i) == IF fuse_call.weights = None THEN 1 ELSE fuse_call.weights[1][i]

\* Every place <<i, r>> of the input: list i, rank r.
Places ==
    {<<i, r>> \in (1..Len(fuse_call.ranked_lists)) \X (1..MaxRank) :
        r <= Len(fuse_call.ranked_lists[i])}

PlacesOf(doc_id) ==
    {pl \in Places : GetDocId(fuse_call.ranked_lists[pl[1]][pl[2]]) = doc_id}

InputIds == {GetDocId(fuse_call.ranked_lists[pl[1]][pl[2]]) : pl \in Places}

\* w / (k_rrf + r) in units of 1/RRFDen, and its sum over a set of places.
ReciprocalRank(w, r) == (w * RRFDen) \div (RRF_K + r)

RECURSIVE SumOverPlaces(_)
SumOverPlaces(P) ==
    IF P = {} THEN 0
    ELSE LET pl == CHOOSE x \in P : TRUE
         IN  ReciprocalRank(WeightOf(pl[1]), pl[2]) + SumOverPlaces(P \ {pl})

\* The input documents in the order the lists are scanned, and the position in
\* that scan at which an identity is first met.
Scanned == Concat(fuse_call.ranked_lists)

FirstSeen(doc_id) ==
    CHOOSE n \in 1..Len(Scanned) :
        /\ GetDocId(Scanned[n]) = doc_id
        /\ \A m \in 1..(n - 1) : GetDocId(Scanned[m]) # doc_id

ResultScore(i) == fuse_call.result[i].metadata.rrf_score[1]

\* C3: the fused score of every passage identity is the sum, over every list and
\* every 1-based rank r at which the identity occurs, of w / (k_rrf + r), w being
\* the weight of the list (1 when no weights are given).
C3_FusedScoreIsWeightedReciprocalRankSum ==
    FuseReturned =>
        \A d \in InputIds :
            \E i \in 1..Len(fuse_call.result) :
                /\ GetDocId(fuse_call.result[i]) = d
                /\ fuse_call.result[i].metadata.rrf_score = Some(SumOverPlaces(PlacesOf(d)))

\* fuse([[A], [A]]) has returned A with score 2/61, and a call with unequal
\* explicit weights has returned too.
C3_Witness ==
    /\ FuseReturned
    /\ fuse_call.ranked_lists = <<<<DocA>>, <<DocA>>>>
    /\ fuse_call.weights = None
    /\ Len(fuse_call.result) = 1
    /\ ResultScore(1) * (RRF_K + 1) = 2 * RRFDen

\* C4: two output passages with equal fused score appear in the order in which
\* their identities were first met while scanning the lists in the order given,
\* each from rank 1 upward.
C4_TiesKeepFirstSeenOrder ==
    FuseReturned =>
        \A i, j \in 1..Len(fuse_call.result) :
            (i < j /\ ResultScore(i) = ResultScore(j)) =>
                FirstSeen(GetDocId(fuse_call.result[i]))
                    < FirstSeen(GetDocId(fuse_call.result[j]))

\* fuse([[A, B], [B, A]]) has returned A before B, with equal scores.
C4_Witness ==
    /\ FuseReturned
    /\ fuse_call.ranked_lists = <<<<DocA, DocB>>, <<DocB, DocA>>>>
    /\ fuse_call.weights = None
    /\ Len(fuse_call.result) = 2
    /\ ResultScore(1) = ResultScore(2)
    /\ fuse_call.result[1].page_content = DocA.page_content
    /\ fuse_call.result[2].page_content = DocB.page_content

\* C5: the output holds exactly one passage per distinct identity of the input
\* lists, never two with the same identity, and each output passage has the
\* content and the original metadata of the first occurrence of its identity.
C5_OnePassagePerIdentityFirstOccurrenceKept ==
    FuseReturned =>
        /\ {GetDocId(fuse_call.result[i]) : i \in 1..Len(fuse_call.result)} = InputIds
        /\ Len(fuse_call.result) = Cardinality(InputIds)
        /\ \A i \in 1..Len(fuse_call.result) :
              LET first == Scanned[FirstSeen(GetDocId(fuse_call.result[i]))]
              IN  /\ fuse_call.result[i].page_content = first.page_content
                  /\ [fuse_call.result[i].metadata EXCEPT !.rrf_score = None]
                        = first.metadata

\* fuse([[D, A], [A, E]]) has returned two passages for the four inputs; D and E
\* share an identity and D, met first, is the one kept.
C5_Witness ==
    /\ FuseReturned
    /\ fuse_call.ranked_lists = <<<<DocD, DocA>>, <<DocA, DocE>>>>
    /\ Len(fuse_call.result) = 2
    /\ \E i \in 1..2 : /\ fuse_call.result[i].metadata.id = Some(7)
                       /\ fuse_call.result[i].page_content = DocD.page_content

\* doc_scores (with doc_objects) as the loops of the call leave it.
Accumulated ==
    FoldEntries(<<>>, ZipEntries(
        DefaultWeights(fuse_call.ranked_lists, fuse_call.weights),
        fuse_call.ranked_lists, 1))

\* C6: the returned list is in non-increasing order of fused score, and every
\* returned passage carries the metadata field rrf_score, holding the fused score
\* accumulated for its identity.
C6_SortedByFusedScoreAndScoreAttached ==
    FuseReturned =>
        /\ LET acc == Accumulated
           IN  \A i \in 1..Len(fuse_call.result) :
                 /\ fuse_call.result[i].metadata.rrf_score # None
                 /\ ResultScore(i)
                       = acc[IndexOfId(acc, GetDocId(fuse_call.result[i]))].score
        /\ \A i, j \in 1..Len(fuse_call.result) :
              i < j => ResultScore(i) >= ResultScore(j)

\* A call has returned a passage met later in the scan ahead of one met earlier,
\* because its fused score is strictly higher.
C6_Witness ==
    /\ FuseReturned
    /\ Len(fuse_call.result) >= 2
    /\ ResultScore(1) > ResultScore(2)
    /\ FirstSeen(GetDocId(fuse_call.result[1]))
          > FirstSeen(GetDocId(fuse_call.result[2]))

----------------------------------------------------------------------------
(* Properties of rerank *)

RerankReturned == rerank_call.pc = "returned"

\* The scorer did not score: no model was loaded, or predict raised.
ScoringFailed == ~rerank_call.model \/ rerank_call.predict.raises

\* C9: when the relevance scorer is unavailable or the scoring call raises, rerank
\* returns exactly the first top_k candidates in their original order, content
\* and metadata unchanged, no rerank score added.
C9_RerankFailOpenReturnsFirstTopK ==
    (RerankReturned /\ ScoringFailed) =>
        /\ Len(rerank_call.result) = Min(rerank_call.top_k, Len(rerank_call.documents))
        /\ \A i \in 1..Len(rerank_call.result) :
              /\ rerank_call.result[i] = rerank_call.documents[i]
              /\ rerank_call.result[i].metadata.rerank_score = None

\* rerank(q, [p1, p2, p3, p4], 2) without a model has returned [p1, p2].
C9_Witness ==
    /\ RerankReturned
    /\ ~rerank_call.model
    /\ rerank_call.documents = <<DocB, DocA, DocC, DocD>>
    /\ rerank_call.top_k = 2
    /\ rerank_call.result = <<DocB, DocA>>

ScoreGiven(doc) == rerank_call.predict.score[doc.page_content]

\* The candidate a returned passage was made from: the candidates of a call are
\* distinct and carry no rerank score.
CandidateIndex(i) ==
    CHOOSE n \in 1..Len(rerank_call.documents) :
        rerank_call.documents[n]
            = [rerank_call.result[i] EXCEPT !.metadata.rerank_score = None]

\* C10: when the scorer is available and succeeds, rerank returns
\* min(top_k, |candidates|) of the candidates, each with the metadata field
\* rerank_score equal to the score the scorer gave its content, in non-increasing
\* score order with equal-scored candidates in input order, and no candidate left
\* out has a score strictly greater than one returned.
C10_RerankReturnsTopScoredInOrder ==
    (RerankReturned /\ ~ScoringFailed) =>
        LET res == rerank_call.result
            docs == rerank_call.documents
        IN  /\ Len(res) = Min(rerank_call.top_k, Len(docs))
            /\ \A i \in 1..Len(res) :
                  /\ \E n \in 1..Len(docs) :
                        docs[n] = [res[i] EXCEPT !.metadata.rerank_score = None]
                  /\ res[i].metadata.rerank_score = Some(ScoreGiven(res[i]))
            /\ \A i, j \in 1..Len(res) :
                  i < j =>
                     \/ ScoreGiven(res[i]) > ScoreGiven(res[j])
                     \/ /\ ScoreGiven(res[i]) = ScoreGiven(res[j])
                        /\ CandidateIndex(i) < CandidateIndex(j)
            /\ \A n \in 1..Len(docs) :
                  (\A i \in 1..Len(res) : CandidateIndex(i) # n) =>
                      \A i \in 1..Len(res) : ScoreGiven(docs[n]) <= ScoreGiven(res[i])

\* A call with four candidates and top_k = 2 has returned the two best: the last
\* candidate first, then one of two equal-scored candidates, a lower-scored one
\* left out.
C10_Witness ==
    /\ RerankReturned
    /\ ~ScoringFailed
    /\ rerank_call.documents = <<DocB, DocA, DocD, DocC>>
    /\ rerank_call.top_k = 2
    /\ Len(rerank_call.result) = 2
    /\ rerank_call.result[1].page_content = DocC.page_content
    /\ rerank_call.result[2] = [DocA EXCEPT !.metadata.rerank_score = Some(20)]
    /\ ScoreGiven(DocB) < 20

----------------------------------------------------------------------------
(* Properties of retrieve *)

RetrieveReturned == retrieve_call.pc = "returned"

\* final_k: top_k when given, else the configured top_k_final.
FinalK ==
    IF retrieve_call.top_k_arg = None THEN settings.top_k_final
    ELSE retrieve_call.top_k_arg[1]

\* C1: retrieve never lets an exception out, and when the simple search it falls
\* back on after an exception in the try block fails too, it returns the empty
\* list.
C1_RetrieveNeverRaises ==
    /\ retrieve_call.pc # "raised"
    /\ RetrieveReturned /\ retrieve_call.caught /\ retrieve_call.fallback_failed
           => retrieve_call.result = <<>>

\* A call whose filter raised on a reranked list and whose fallback search
\* failed as well.
C1_Witness ==
    /\ RetrieveReturned
    /\ retrieve_call.caught
    /\ retrieve_call.fallback_failed
    /\ retrieve_call.scored
    /\ retrieve_call.documents # <<>>
    /\ retrieve_call.result = <<>>

\* C2: in every strategy, reranked or not, filtered or not, and on the fallback
\* path, the list retrieve returns has at most final_k passages.
C2_ResultHasAtMostFinalK ==
    RetrieveReturned => Len(retrieve_call.result) <= FinalK

\* A call given top_k = 1 over a store of more rows, in the advanced strategy
\* without reranking, returning one passage after the filter.
C2_Witness ==
    /\ RetrieveReturned
    /\ retrieve_call.top_k_arg = Some(1)
    /\ retrieve_call.strategy = "advanced"
    /\ ~retriever.enable_reranking
    /\ Len(retriever.rows) > 1
    /\ retrieve_call.filter_arg # None
    /\ ~retrieve_call.caught
    /\ Len(retrieve_call.result) = 1

\* The best-known relevance score of section 4.7: the rerank score when the
\* passage has one, else the raw score, else 1.0.
BestKnownScore(doc) ==
    IF doc.metadata.rerank_score # None THEN Float(doc.metadata.rerank_score[1])
    ELSE ScoreOrDefault(doc)

Numeric(documents) ==
    \A i \in 1..Len(documents) : BestKnownScore(documents[i]).type = "float"
                                 /\ ScoreOrDefault(documents[i]).type = "float"

Passing(documents) ==
    SelectSeq(documents,
              LAMBDA d : BestKnownScore(d).value >= settings.similarity_threshold)

\* The filter returned: it was applied and did not raise.
Filtered ==
    RetrieveReturned /\ ~retrieve_call.caught /\ retrieve_call.filter_arg # None

\* C7: the filter never turns a non-empty list into an empty one, it returns the
\* input unchanged when every passage scores below the threshold, and retrieve
\* returns an empty list only when the list reaching the filter was empty.
C7_FilterFailsOpen ==
    /\ Filtered /\ Numeric(retrieve_call.filter_arg[1]) =>
          LET documents == retrieve_call.filter_arg[1]
          IN  /\ documents # <<>> => retrieve_call.result # <<>>
              /\ Passing(documents) = <<>> => retrieve_call.result = documents
    /\ RetrieveReturned /\ retrieve_call.result = <<>> => retrieve_call.documents = <<>>

\* C8: the filter keeps the passages whose best-known score reaches the
\* threshold, or the whole input when there is none.
C8_FilterComparesBestKnownScore ==
    Filtered /\ Numeric(retrieve_call.filter_arg[1]) =>
        LET documents == retrieve_call.filter_arg[1]
        IN  retrieve_call.result =
                IF Passing(documents) # <<>> THEN Passing(documents) ELSE documents

----------------------------------------------------------------------------
(* Properties of _select_strategy *)

SelectReturned == select_call.pc = "returned"

\* C11: a query of 5 to 14 tokens is given hybrid when hybrid search is enabled
\* and simple otherwise, whatever the HyDE toggle.
C11_MediumQueryHybridElseSimple ==
    SelectReturned /\ select_call.query_length \in 5..14 =>
        select_call.result = IF select_call.enable_hybrid THEN "hybrid" ELSE "simple"

\* C12: fewer than 5 tokens give simple whatever the toggles; 15 tokens or more
\* give advanced when HyDE is enabled, else hybrid when hybrid is enabled, else
\* simple.
C12_ShortAndLongQuerySelection ==
    SelectReturned =>
        /\ select_call.query_length < 5 => select_call.result = "simple"
        /\ select_call.query_length >= 15 =>
              select_call.result = IF select_call.enable_hyde THEN "advanced"
                                   ELSE IF select_call.enable_hybrid THEN "hybrid"
                                   ELSE "simple"

\* A query of exactly 15 tokens with both toggles on, selected advanced.
C12_Witness ==
    /\ SelectReturned
    /\ select_call.query_length = 15
    /\ select_call.enable_hyde /\ select_call.enable_hybrid
    /\ select_call.result = "advanced"

----------------------------------------------------------------------------
(* Properties of the dispatch on the strategy *)

\* The retrieval of the strategy has run and nothing has been caught.
Retrieved ==
    retrieve_call.pc \in {"rerank", "filter", "returned"} /\ ~retrieve_call.caught

\* The operations of the searches issued so far.
SearchOps == [i \in 1..Len(retrieve_call.searches) |-> retrieve_call.searches[i].op]

\* The searches of the advanced strategy: the direct search, the HyDE searches
\* when HyDE is enabled, the multi-query searches or the direct search they fall
\* back on, the hybrid search when hybrid is enabled.
AdvancedOps ==
    {<<"similarity_search">> \o (IF retriever.enable_hyde THEN <<"hyde">> ELSE <<>>)
        \o <<multi>> \o (IF retriever.enable_hybrid THEN <<"hybrid_search">> ELSE <<>>) :
     multi \in {"multi_query", "similarity_search"}}

\* C13: with a strategy other than auto the token rule is not consulted: simple,
\* hybrid and advanced run that strategy's retrieval whatever the query length
\* and the toggles, and any other name runs the simple vector search.
C13_ExplicitStrategyRunsAsNamed ==
    Retrieved /\ retrieve_call.retrieval_strategy # "auto" =>
        /\ retrieve_call.strategy = retrieve_call.retrieval_strategy
        /\ CASE retrieve_call.retrieval_strategy = "hybrid" ->
                    SearchOps = <<"hybrid_search">>
             [] retrieve_call.retrieval_strategy = "advanced" ->
                    SearchOps \in AdvancedOps
             [] OTHER ->
                    /\ SearchOps = <<"similarity_search">>
                    /\ retrieve_call.searches[1].k = settings.top_k_retrieval
                    /\ retrieve_call.searches[1].filters = retrieve_call.filters

\* A 4-token query, which the rule would give simple, forced to advanced with
\* both toggles off, and a name that is not known run as the simple search:
\* the first of the two.
C13_Witness ==
    /\ RetrieveReturned /\ ~retrieve_call.caught
    /\ retrieve_call.retrieval_strategy = "advanced"
    /\ retrieve_call.query_length = 4
    /\ ~retriever.enable_hyde /\ ~retriever.enable_hybrid
    /\ SearchOps = <<"similarity_search", "multi_query">>

----------------------------------------------------------------------------
(* Properties of _combine_results *)

CombineReturned == hybrid_call.pc = "returned"

\* The identities of the passages of a result list.
IdsOf(results) == {GetDocId(results[i].doc) : i \in 1..Len(results)}

\* The normalized score of an identity in a list, 0 when it is not in the list.
NormalizedOf(doc_id, results, normalized) ==
    IF doc_id \in IdsOf(results)
    THEN normalized[CHOOSE i \in 1..Len(results) : GetDocId(results[i].doc) = doc_id].score
    ELSE 0

\* C14: the combiner yields one entry per passage identity, scored
\* wv * normalized vector score + wk * normalized keyword score with 0 for a
\* list the passage is not in, ordered by that score descending.
C14_OneEntryPerIdentityWithCombinedScore ==
    CombineReturned =>
        LET scored == hybrid_call.scored
        IN  /\ \A doc_id \in IdsOf(hybrid_call.vector_results)
                             \cup IdsOf(hybrid_call.keyword_results) :
                  \E i \in 1..Len(scored) :
                     /\ GetDocId(scored[i].doc) = doc_id
                     /\ \A j \in 1..Len(scored) :
                           GetDocId(scored[j].doc) = doc_id => j = i
                     /\ scored[i].score =
                           VectorWeight * hybrid_call.keyword_range
                              * NormalizedOf(doc_id, hybrid_call.vector_results,
                                             hybrid_call.vector_normalized)
                           + KeywordWeight * hybrid_call.vector_range
                              * NormalizedOf(doc_id, hybrid_call.keyword_results,
                                             hybrid_call.keyword_normalized)
            /\ \A i \in 1..Len(scored) - 1 : scored[i].score >= scored[i + 1].score
            /\ hybrid_call.result = [i \in 1..Len(scored) |-> scored[i].doc]

\* A list is normalized: every score s becomes (s - min) / (max - min), held as
\* the numerator with the range beside it, and 0 over 1 when max = min.
MinMaxNormalized(results, normalized, range) ==
    /\ Len(normalized) = Len(results)
    /\ range > 0
    /\ \A i \in 1..Len(results) :
          /\ normalized[i].doc = results[i].doc
          /\ 0 <= normalized[i].score /\ normalized[i].score <= range
    /\ results # <<>> =>
          LET lo == MinOf(ScoreSet(results))
              hi == MaxOf(ScoreSet(results))
          IN  \A i \in 1..Len(results) :
                 /\ hi # lo =>
                       /\ normalized[i].score * (hi - lo)
                             = (results[i].score[1] - lo) * range
                       /\ results[i].score[1] = lo => normalized[i].score = 0
                       /\ results[i].score[1] = hi => normalized[i].score = range
                 /\ hi = lo => normalized[i].score = 0

\* C15: each list is normalized on its own by (score - min) / (max - min) into
\* [0, 1]; equal scores all become 0 with no division by zero; the empty list
\* stays empty.
C15_MinMaxNormalizationPerList ==
    CombineReturned =>
        /\ MinMaxNormalized(hybrid_call.vector_results, hybrid_call.vector_normalized,
                            hybrid_call.vector_range)
        /\ MinMaxNormalized(hybrid_call.keyword_results,
                            hybrid_call.keyword_normalized, hybrid_call.keyword_range)

\* Two vector results of equal score, normalized to 0 and 0, beside two keyword
\* results of scores 100 and 50, normalized to 1 and 0.
C15_Witness ==
    /\ CombineReturned
    /\ Len(hybrid_call.vector_results) = 2
    /\ hybrid_call.vector_results[1].score = hybrid_call.vector_results[2].score
    /\ hybrid_call.vector_normalized[1].score = 0
    /\ hybrid_call.vector_normalized[2].score = 0
    /\ Len(hybrid_call.keyword_results) = 2
    /\ hybrid_call.keyword_results[1].score = Some(100)
    /\ hybrid_call.keyword_results[2].score = Some(50)
    /\ hybrid_call.keyword_normalized[1].score = hybrid_call.keyword_range
    /\ hybrid_call.keyword_normalized[2].score = 0

----------------------------------------------------------------------------
(* Properties of HyDERetriever *)

HydeGenerated == hyde_call.pc \in {"generated", "returned"}

HydeReturned == hyde_call.pc = "returned"

\* C16: when the generation fails at some attempts and not at others, every
\* attempt is still made and the text of every successful attempt is one of the
\* search strings.
C16_FailedGenerationSkipsOnlyThatHypothesis ==
    (/\ HydeGenerated
     /\ \E i \in 1..hyde_call.num_hypotheses : hyde_call.generated[i] = "raises"
     /\ \E i \in 1..hyde_call.num_hypotheses : hyde_call.generated[i] # "raises")
    => /\ hyde_call.attempts = hyde_call.num_hypotheses
       /\ \A i \in 1..hyde_call.num_hypotheses :
              hyde_call.generated[i] = "text"
              => \E j \in 1..Len(hyde_call.hypotheses) : hyde_call.hypotheses[j] = i

\* C17: the generation returns a non-empty list of at most h search strings
\* (one string when h is 0); when no attempt gives a text the list is exactly
\* [query]; so a HyDE call makes at least one vector search.
C17_HypothesesNonEmptyAtMostH ==
    HydeGenerated
    => /\ Len(hyde_call.hypotheses) >= 1
       /\ Len(hyde_call.hypotheses) <= Max(hyde_call.num_hypotheses, 1)
       /\ (\A i \in 1..hyde_call.num_hypotheses : hyde_call.generated[i] # "text")
          => hyde_call.hypotheses = <<Query>>
       /\ HydeReturned => Len(hyde_call.searched) >= 1

C17_Witness ==
    /\ HydeReturned
    /\ hyde_call.num_hypotheses = NumHypotheses
    /\ \A i \in 1..NumHypotheses : hyde_call.generated[i] = "blank"
    /\ hyde_call.hypotheses = <<Query>>
    /\ Len(hyde_call.searched) = 1

\* The plain vector search on the original query, with the same k and filters.
PlainSearches ==
    {SimilaritySearch(outcome, hyde_call.rows, hyde_call.k, hyde_call.filters).value :
         outcome \in SearchOutcomes(Query)}

\* C18: when the search of some hypothesis fails, the call returns the result of
\* one plain vector search on the original query, and it does not raise.
C18_FailedSearchGivesPlainSearch ==
    (/\ HydeReturned
     /\ \E i \in 1..Len(hyde_call.searched) : hyde_call.searched[i] = "raises")
    => /\ ~hyde_call.raised
       /\ hyde_call.result \in PlainSearches

\* The concatenation of the neighbour lists, in hypothesis order.
AllDocuments == Concat(hyde_call.neighbours)

\* The positions of AllDocuments that hold the first occurrence of a content.
FirstOccurrences ==
    {i \in 1..Len(AllDocuments) :
        \A j \in 1..(i - 1) : AllDocuments[j].page_content # AllDocuments[i].page_content}

NthFirstOccurrence(n) ==
    CHOOSE i \in FirstOccurrences : Cardinality({j \in FirstOccurrences : j <= i}) = n

\* C19: the result is the concatenation of the neighbour lists of the hypotheses,
\* in hypothesis order, with only the first document of each content kept in
\* first-seen order, cut to k documents.
C19_ConcatenatedDeduplicatedTruncated ==
    HydeReturned
    => /\ Len(hyde_call.result) = Min(hyde_call.k, Cardinality(FirstOccurrences))
       /\ \A n \in 1..Len(hyde_call.result) :
              hyde_call.result[n] = AllDocuments[NthFirstOccurrence(n)]

C19_Witness ==
    /\ HydeReturned
    /\ Len(hyde_call.hypotheses) >= 2
    /\ Cardinality(FirstOccurrences) < Len(AllDocuments)
    /\ Cardinality(FirstOccurrences) > hyde_call.k
    /\ Len(hyde_call.result) = hyde_call.k
    /\ hyde_call.k >= 2
    /\ hyde_call.neighbours[1] # hyde_call.neighbours[2]

----------------------------------------------------------------------------
(* Properties of _multi_query_retrieve *)

MultiQueryReturned == multi_query_call.pc = "returned"

\* The direct vector search with limit k and the caller's filters.
DirectSearches ==
    {SimilaritySearch(outcome, multi_query_call.rows, multi_query_call.k,
                      multi_query_call.filters).value : outcome \in {"raises", "ranked"}}

\* C20: the multi-query branch never raises; when building or running the
\* expansion fails it makes exactly one direct vector search with limit k and the
\* caller's filters and returns its result; when it succeeds every variant is
\* searched with limit floor(k / 3) and the caller's filters.
C20_MultiQueryFallsBackToDirectSearch ==
    MultiQueryReturned
    => /\ ~multi_query_call.raised
       /\ multi_query_call.generated = "raises"
          => /\ multi_query_call.searches =
                    <<[op |-> "similarity_search", k |-> multi_query_call.k,
                       filters |-> multi_query_call.filters]>>
             /\ multi_query_call.result \in DirectSearches
       /\ multi_query_call.generated = "variants"
          => /\ Len(multi_query_call.searches) = Len(multi_query_call.searched)
             /\ \A i \in 1..Len(multi_query_call.searches) :
                    LET search == multi_query_call.searches[i]
                    IN  /\ search.op = "multi_query"
                        /\ 3 * search.k <= multi_query_call.k
                        /\ multi_query_call.k < 3 * search.k + 3
                        /\ search.filters = multi_query_call.filters
             /\ \A limit \in 0..MaxLimit :
                    (3 * limit <= multi_query_call.k /\ multi_query_call.k < 3 * limit + 3)
                    => Len(multi_query_call.result)
                           <= limit * Len(multi_query_call.searched)

C20_Witness ==
    /\ MultiQueryReturned
    /\ multi_query_call.generated = "raises"
    /\ multi_query_call.k = 5
    /\ multi_query_call.filters = Some(1)
    /\ Len(multi_query_call.result) = 3

C20_VariantsWitness ==
    /\ MultiQueryReturned
    /\ multi_query_call.generated = "variants"
    /\ multi_query_call.k = 5
    /\ Len(multi_query_call.searches) = 2
    /\ Len(multi_query_call.result) = 2

----------------------------------------------------------------------------
(* Properties of _advanced_retrieve *)

\* The branches have run and fusion is next.
BeforeFusion == retrieve_call.pc = "fuse"

\* The place of the multi-query list in all_results.
MultiQueryPlace == IF retriever.enable_hyde THEN 3 ELSE 2

\* The expansion of the multi-query branch failed: no variant was searched.
MultiQueryFailed ==
    \A i \in 1..Len(retrieve_call.searches) :
        retrieve_call.searches[i].op # "multi_query"

\* C21: a failure in one branch of the advanced strategy stays in that branch:
\* every enabled branch has run and handed its list to fusion, and the list of
\* a failed branch is empty.
C21_BranchFailureIsLocal ==
    BeforeFusion
    => /\ Len(retrieve_call.all_results)
              = 2 + (IF retriever.enable_hyde THEN 1 ELSE 0)
                  + (IF retriever.enable_hybrid THEN 1 ELSE 0)
       /\ MultiQueryFailed => retrieve_call.all_results[MultiQueryPlace] = <<>>

----------------------------------------------------------------------------
(* Properties of the simple strategy *)

\* The threshold filter of section 4.7 on a list with no rerank score.
ThresholdFiltered(documents) ==
    IF Passing(documents) = <<>> THEN documents ELSE Passing(documents)

\* The direct vector search of the call: limit initial_k and the caller's filters.
DirectList ==
    MatchDocuments("ranked", retriever.rows, settings.top_k_retrieval,
                   retrieve_call.filters)

\* The scenario of the specification: 5 tokens, the strategy left to the token
\* rule, hybrid search and reranking not enabled, P1 and P2 in the store.
InScenario ==
    /\ retrieve_call.pc # "called"
    /\ retrieve_call.query_length = 5
    /\ retrieve_call.retrieval_strategy = "auto"
    /\ ~retriever.enable_hybrid
    /\ ~retriever.enable_reranking
    /\ retriever.rows = ScenarioRows
    /\ settings.similarity_threshold = ScenarioThreshold

\* C23: under the simple strategy only direct vector searches are made, and
\* without reranking the result is the direct list cut to final_k and filtered
\* by the threshold in its order (or empty when the search failed); in the
\* scenario the strategy is simple and a result that is not empty is exactly [P1].
C23_SimpleStrategyIsDirectSearchOnly ==
    /\ (RetrieveReturned /\ retrieve_call.strategy = "simple")
       => /\ \A i \in 1..Len(retrieve_call.searches) :
                 retrieve_call.searches[i].op = "similarity_search"
          /\ (~retrieve_call.reranked /\ Numeric(DirectList)
              /\ settings.similarity_threshold > 0)
             => retrieve_call.result
                    \in {<<>>, ThresholdFiltered(Take(DirectList, FinalK))}
    /\ InScenario
       => /\ retrieve_call.strategy = "simple"
          /\ RetrieveReturned => retrieve_call.result \in {<<>>, <<DocA>>}

----------------------------------------------------------------------------
(* Properties of the score fields of the result *)

HasRerankScore(documents) ==
    \A i \in 1..Len(documents) : documents[i].metadata.rerank_score # None

HasRRFScore(documents) ==
    \A i \in 1..Len(documents) : documents[i].metadata.rrf_score # None

\* The try block of retrieve produced the result, not the fallback search.
ProducedByStrategy == RetrieveReturned /\ ~retrieve_call.caught

\* The statement as given: a rerank score whenever reranking is enabled and the
\* result is not empty, a fusion score whenever the advanced strategy produced
\* the result without reranking.
C24_ScoreFieldWheneverStageEnabled ==
    RetrieveReturned
    => /\ (retriever.enable_reranking /\ retrieve_call.result # <<>>)
          => HasRerankScore(retrieve_call.result)
       /\ (ProducedByStrategy /\ retrieve_call.strategy = "advanced"
           /\ ~retriever.enable_reranking)
          => HasRRFScore(retrieve_call.result)

\* C24: every passage of the result carries the score field of the last stage
\* that scored it: a rerank score whenever the reranker scored the list (scorer
\* loaded, scoring succeeded) and the result is the strategy's, a fusion score
\* whenever the advanced strategy produced the result; a result of the fallback
\* search, or of a reranker that failed open, carries no rerank score.
C24_ScoreFieldOfLastScoringStage ==
    RetrieveReturned
    => /\ (ProducedByStrategy /\ retrieve_call.scored)
          => HasRerankScore(retrieve_call.result)
       /\ (ProducedByStrategy /\ retrieve_call.strategy = "advanced")
          => HasRRFScore(retrieve_call.result)
       /\ (retrieve_call.caught \/ ~retrieve_call.scored)
          => \A i \in 1..Len(retrieve_call.result) :
                 retrieve_call.result[i].metadata.rerank_score = None

C24_Witness ==
    /\ ProducedByStrategy
    /\ retrieve_call.strategy = "advanced"
    /\ retrieve_call.scored
    /\ retrieve_call.result # <<>>
    /\ HasRerankScore(retrieve_call.result)
    /\ HasRRFScore(retrieve_call.result)

----------------------------------------------------------------------------
(* Properties of the lists the advanced strategy fuses *)

\* The searches of the branches, in order: the multi-query branch shows as the
\* search of its variants or, when the expansion failed, as a direct search.
BranchOps(multi_query) ==
    <<"similarity_search">>
        \o (IF retriever.enable_hyde THEN <<"hyde">> ELSE <<>>)
        \o <<multi_query>>
        \o (IF retriever.enable_hybrid THEN <<"hybrid_search">> ELSE <<>>)

OpsOf(searches) == [i \in 1..Len(searches) |-> searches[i].op]

EqualWeights(ranked_lists) == Some([i \in 1..Len(ranked_lists) |-> 1])

\* The branches of the advanced strategy as they stand before fusion.
BranchesInOrder ==
    BeforeFusion
    => /\ OpsOf(retrieve_call.searches)
              \in {BranchOps("multi_query"), BranchOps("similarity_search")}
       /\ Len(retrieve_call.all_results) = Len(retrieve_call.searches)
       /\ \A i \in 1..Len(retrieve_call.searches) :
              LET search == retrieve_call.searches[i]
              IN  IF search.op = "multi_query"
                  THEN /\ 3 * search.k <= settings.top_k_retrieval
                       /\ settings.top_k_retrieval < 3 * search.k + 3
                  ELSE search.k = settings.top_k_retrieval

\* What reaches the reranker from the advanced strategy.
PoolBounded ==
    (retrieve_call.pc = "rerank" /\ retrieve_call.strategy = "advanced")
    => Len(retrieve_call.documents) <= settings.top_k_retrieval

\* The fusion step: the lists of all_results, in their order, with weight 1 each,
\* cut to initial_k.
FusedWithEqualWeights ==
    (BeforeFusion /\ retrieve_call'.pc = "rerank")
    => retrieve_call'.documents
           = Take(Fuse(retrieve_call.all_results,
                       EqualWeights(retrieve_call.all_results)),
                  settings.top_k_retrieval)

\* C25: the advanced strategy fuses with equal weights the direct list, the HyDE
\* list iff HyDE is enabled, the multi-query list, the hybrid list iff hybrid is
\* enabled, in this order, each requested with initial_k, and hands the reranker
\* at most initial_k fused passages.
C25_AdvancedFusesBranchListsInOrder ==
    /\ [](BranchesInOrder /\ PoolBounded)
    /\ [][FusedWithEqualWeights]_vars

\* Four branches ran and the fused list was longer than the pool.
C25_Witness ==
    /\ retrieve_call.pc = "rerank"
    /\ retrieve_call.strategy = "advanced"
    /\ retriever.enable_hyde
    /\ retriever.enable_hybrid
    /\ Len(retrieve_call.searches) = 4
    /\ settings.top_k_retrieval = TopKRetrieval - 1
    /\ Len(retrieve_call.documents) = settings.top_k_retrieval
    /\ \E i \in 1..Len(retriever.rows) :
           \A j \in 1..Len(retrieve_call.documents) :
               retrieve_call.documents[j].page_content # retriever.rows[i].page_content

----------------------------------------------------------------------------
(* Properties of the stages on the passages they receive *)

\* doc with the score field of its metadata left out of the comparison.
SameButRRFScore(result, doc) ==
    /\ result.page_content = doc.page_content
    /\ result.metadata.rrf_score # None
    /\ result.metadata = [doc.metadata EXCEPT !.rrf_score = result.metadata.rrf_score]

SameButRerankScore(result, doc) ==
    /\ result.page_content = doc.page_content
    /\ result.metadata.rerank_score # None
    /\ result.metadata
           = [doc.metadata EXCEPT !.rerank_score = result.metadata.rerank_score]

FuseKeepsItsInput ==
    (fuse_call.pc = "called" /\ fuse_call'.pc = "returned")
    => /\ fuse_call'.ranked_lists = fuse_call.ranked_lists
       /\ \A n \in 1..Len(fuse_call'.result) :
              \E i \in 1..Len(fuse_call.ranked_lists) :
                 \E r \in 1..Len(fuse_call.ranked_lists[i]) :
                    SameButRRFScore(fuse_call'.result[n], fuse_call.ranked_lists[i][r])

RerankKeepsItsInput ==
    (rerank_call.pc = "called" /\ rerank_call'.pc = "returned")
    => /\ rerank_call'.documents = rerank_call.documents
       /\ \A n \in 1..Len(rerank_call'.result) :
              \E i \in 1..Len(rerank_call.documents) :
                 \/ rerank_call'.result[n] = rerank_call.documents[i]
                 \/ SameButRerankScore(rerank_call'.result[n], rerank_call.documents[i])

FilterKeepsItsInput ==
    (filter_call.pc = "called" /\ filter_call'.pc = "returned")
    => /\ filter_call'.documents = filter_call.documents
       /\ \A n \in 1..Len(filter_call'.result) :
              \E i \in 1..Len(filter_call.documents) :
                 filter_call'.result[n] = filter_call.documents[i]

\* C26: fuse, rerank and the threshold filter leave the lists and the passages
\* they receive as they were, and a passage returned with an added score equals
\* the passage it was made from in content and in every other metadata field.
C26_StagesNeverMutateTheirInput ==
    [][FuseKeepsItsInput /\ RerankKeepsItsInput /\ FilterKeepsItsInput]_vars

\* A rerank whose scores put the second candidate first.
C26_Witness ==
    /\ rerank_call.pc = "returned"
    /\ Len(rerank_call.documents) >= 2
    /\ rerank_call.result # <<>>
    /\ SameButRerankScore(rerank_call.result[1], rerank_call.documents[2])

----------------------------------------------------------------------------
(* Properties of fuse under any weights *)

ResultIds == {GetDocId(fuse_call.result[i]) : i \in 1..Len(fuse_call.result)}

\* C28: whatever the weights argument, a list shorter than the list of ranked
\* lists included, the identities of the output are the identities of all the
\* input lists.
C28_FuseNeverDropsAPassage ==
    FuseReturned => ResultIds = InputIds

----------------------------------------------------------------------------
(* Properties of the metadata filters *)

\* C29: every search retrieve makes for a call is given the filters of the call,
\* in every strategy, so every passage it returns matches them.
C29_FiltersReachEverySearch ==
    /\ \A i \in 1..Len(retrieve_call.searches) :
           retrieve_call.searches[i].filters = retrieve_call.filters
    /\ RetrieveReturned
       => \A i \in 1..Len(retrieve_call.result) :
              Matches(retrieve_call.result[i], retrieve_call.filters)


----------------------------------------------------------------------------
(* Properties of fuse under a permutation of its ranked lists *)

FusedBothWays == fuse_call.pc = "permuted"

FusedIds(documents) == {GetDocId(documents[i]) : i \in 1..Len(documents)}

\* The rrf_score of the passage of this identity: the sum of its
\* contributions without rounding.
ScoreOf(documents, doc_id) ==
    LET i == CHOOSE j \in 1..Len(documents) : GetDocId(documents[j]) = doc_id
    IN  documents[i].metadata.rrf_score

\* The number of (list, rank) places where the identity occurs.
Occurrences(doc_id) ==
    Cardinality({pl \in Places :
                   GetDocId(fuse_call.ranked_lists[pl[1]][pl[2]]) = doc_id})

SameIdentities ==
    /\ FusedIds(fuse_call.permuted_result) = FusedIds(fuse_call.result)
    /\ DOMAIN fuse_call.permuted_doc_scores = DOMAIN fuse_call.doc_scores
    /\ DOMAIN fuse_call.doc_scores = FusedIds(fuse_call.result)

\* C30 as the specification states it: the score fuse stores for an identity
\* is the same under every permutation of the ranked lists and their weights.
C30_FusedScoreInvariantUnderPermutation ==
    FusedBothWays =>
        /\ SameIdentities
        /\ \A doc_id \in DOMAIN fuse_call.doc_scores :
             fuse_call.permuted_doc_scores[doc_id] = fuse_call.doc_scores[doc_id]

\* C30: under every permutation of the ranked lists and their weights the set
\* of identities is the same, the sum of an identity's contributions without
\* rounding is the same, and the float fuse stores for an identity is the same
\* whenever the identity occurs at most twice in the lists.
C30_FusedScoreInvariantUpToRounding ==
    FusedBothWays =>
        /\ SameIdentities
        /\ \A doc_id \in DOMAIN fuse_call.doc_scores :
             /\ ScoreOf(fuse_call.permuted_result, doc_id)
                  = ScoreOf(fuse_call.result, doc_id)
             /\ Occurrences(doc_id) <= 2 =>
                  fuse_call.permuted_doc_scores[doc_id] = fuse_call.doc_scores[doc_id]

C30_Witness ==
    /\ FusedBothWays
    /\ fuse_call.weights = Some(<<1, 2, 1>>)
    /\ fuse_call.order = <<3, 1, 2>>
    /\ \E doc_id \in DOMAIN fuse_call.doc_scores :
         /\ Occurrences(doc_id) = 2
         /\ fuse_call.permuted_result # fuse_call.result

----------------------------------------------------------------------------
(* Properties of repeated and concurrent calls of retrieve *)

FirstCall == other_calls.returned[1]

RepeatedCall ==
    IF retrieve_call.caller = "again" THEN retrieve_call ELSE other_calls.waiting

OtherCall ==
    IF retrieve_call.caller = "other" THEN retrieve_call ELSE other_calls.waiting

RepeatedReturned == other_calls.returned # None /\ Finished(RepeatedCall)

\* What the caller gets: the list, or the exception.
SameOutcome(call, other) == call.pc = other.pc /\ call.result = other.result

C27_ConcurrentCallsDoNotInterfere ==
    /\ [](RepeatedReturned => SameOutcome(RepeatedCall, FirstCall))
    /\ [][retriever' = retriever /\ settings' = settings]_vars

C27_Witness ==
    /\ RepeatedReturned
    /\ other_calls.preempted = {"again", "other"}
    /\ RepeatedCall.strategy = "advanced"
    /\ OtherCall.strategy = "advanced"
    /\ OtherCall.all_results # <<>>
    /\ RepeatedCall.result # <<>>
====
